---- MODULE Spec2Model ----
(***************************************************************************)
(* Hopscotch hash containers of rk: HopscotchBase (src/rk/hop_base.hpp),   *)
(* Dict (src/rk/hop_dict.hpp) and Set (src/rk/hop_set.hpp).                *)
(*                                                                         *)
(* A table is a record                                                     *)
(*   kind      "Set" or "Dict"                                             *)
(*   capacity  capacity_                                                   *)
(*   size      size_                                                       *)
(*   keys      keys_   : 0 .. capacity + hop_bucket - 1 -> key             *)
(*   hops      hops_   : 0 .. capacity + hop_bucket - 1 -> hop_type word   *)
(*   values    values_ : the same domain -> value (Dict; <<>> for a Set)   *)
(* A word of hops_ is the set of the positions of its set bits, a subset  *)
(* of 0 .. HopSize - 1 (hop_type is uint8_t, uint16_t or uint32_t); bit 0  *)
(* is the slot's occupancy bit, bits 1 .. hop_bucket are the displacement  *)
(* bits of the virtual bucket rooted at the slot.                          *)
(***************************************************************************)
EXTENDS Integers, Sequences, FiniteSets, TLC

\* ------------------------------------------------------------------ bounds

\* Keys are 0 .. MaxKey.
MaxKey == 9

\* At most MaxErase successful erase/remove calls in one behaviour.
MaxErase == 1

\* expand() is not followed beyond this capacity (an insert that would need
\* a larger table is not taken; the behaviour about growth records the ones
\* that no capacity can serve).
MaxCap == 64

\* ------------------------------------------------------- program constants

\* The neighbourhood widths detail::hop_traits is specialised for.
HopSizes == {8, 16, 32}

VARIABLE HopSize    \* the HopSize template argument of the containers

\* hop_traits<HopSize>::hop_bucket = HopSize - 1
hop_bucket == HopSize - 1

\* hop_traits<HopSize>::probe_max = HopSize * 16
probe_max == HopSize * 16

\* ------------------------------------------------------------------ inputs

Keys == 0 .. MaxKey

\* Requested initial sizes handed to the constructor.
InitSizes == {3, 8}

\* The keys handed to erase/remove and operator[], and to insert more than
\* once; the other keys are inserted once each.  Key 1 is stored in its home
\* slot under the identity functor and next to it under the other two.
RepeatedKeys == {1}

Kinds == {"Set", "Dict"}

\* The Hash template parameter: any deterministic functor.  Three are modelled:
\*   "ident"   std::hash<int> as libstdc++ defines it, hash(k) = k;
\*   "stride"  hash(k) = 16 * k: every key shares one home bucket up to
\*             capacity 16;
\*   "clash"   seven keys with hash = 8 mod 16, then two with hash = 7 mod 16,
\*             then more with hash = 8 mod 16: at capacity 8 the two groups
\*             live in buckets 0 and 7, at capacity 16 in the adjacent
\*             buckets 8 and 7.
\* A fourth, "same", gives every key the hash 5 (the behaviour about growth
\* uses it).
HashSels == {"ident", "stride", "clash"}

\* The value an insert of key k carries: ValueOf(k) at the first insert of k,
\* ValueOf(k) or AltValue(k) at a later one.  value_type() is 0.
ValueOf(k) == k + 1

AltValue(k) == 0 - (k + 1)

DefaultValue == 0

VARIABLES
    hsel,       \* which Hash functor the table was instantiated with
    table,      \* the Dict or Set object
    live,       \* ghost: the keys inserted and not erased since
    val,        \* ghost: val[k] is the value of the insert that added k
    fresh,      \* ghost: keys 0 .. fresh - 1 have been handed to insert
    erases,     \* ghost: number of successful erase/remove calls so far
    cap0,       \* ghost: the capacity after construction
    growths,    \* ghost: number of expand() calls so far
    nestedSeen, \* ghost: an expand() ran inside another expand()'s loop
    last        \* ghost: the last call, its arguments and its result

\* Several Set objects and the storage they point into (used where a call
\* involves more than one object, or the ownership of keys_ and hops_).
VARIABLES
    mem,        \* the heap: mem[a] is the block std::calloc returned as address a
    objs,       \* the Set objects alive, by name: capacity_, size_, keys_, hops_
    fault,      \* "none", or the undefined behaviour a call ran into
    trivial,    \* std::is_trivially_destructible<key_type>
    expect,     \* ghost: the elements each object is to have
    call        \* ghost: the last call on the objects and its result

tabvars == <<table, live, val, fresh, erases, cap0, growths, nestedSeen, last>>

objvars == <<mem, objs, fault, trivial, expect, call>>

vars == <<HopSize, hsel, table, live, val, fresh, erases, cap0, growths, nestedSeen, last,
          mem, objs, fault, trivial, expect, call>>

\* -------------------------------------------------------------- arithmetic

Pow2(n) == 2 ^ n

\* (w >> n) & 1
Bit(w, n) == IF n \in w THEN 1 ELSE 0

\* conversion of an int back to hop_type: the bits from HopSize on are lost
Wrap(w) == w \cap (0 .. HopSize - 1)

\* w >> 1
Shr(w) == {b - 1 : b \in w \ {0}}

\* w |= 1 << n, stored into a hop_type
OrBit(w, n) == Wrap(w \cup {n})

\* w ^= 1 << n, stored into a hop_type
XorBit(w, n) == Wrap(IF n \in w THEN w \ {n} ELSE w \cup {n})

RECURSIVE BitAnd(_, _)
BitAnd(a, b) ==
    IF a = 0 \/ b = 0 THEN 0
    ELSE (a % 2) * (b % 2) + 2 * BitAnd(a \div 2, b \div 2)

RECURSIVE BitOr(_, _)
BitOr(a, b) ==
    IF a = 0 THEN b
    ELSE IF b = 0 THEN a
    ELSE (IF a % 2 = 1 \/ b % 2 = 1 THEN 1 ELSE 0) + 2 * BitOr(a \div 2, b \div 2)

Min(a, b) == IF a < b THEN a ELSE b

\* value |= value >> s
Smear(value, s) == BitOr(value, value \div Pow2(s))

\* numeric.hpp npot32: --value; five smears; ++value.  On uint32_t, --0 is
\* 0xFFFFFFFF, which the smears leave alone and ++ wraps to 0.
npot32(value) ==
    IF value = 0 THEN 0
    ELSE Smear(Smear(Smear(Smear(Smear(value - 1, 1), 2), 4), 8), 16) + 1

\* ------------------------------------------------------------ HopscotchBase

Hash(k) ==
    CASE hsel = "ident"  -> k
      [] hsel = "stride" -> 16 * k
      [] hsel = "clash"  -> IF k <= 6 THEN 8 + 16 * k
                            ELSE IF k = 7 THEN 7
                            ELSE IF k = 8 THEN 23
                            ELSE 8 + 16 * (k - 2)
      [] hsel = "same"   -> 5

\* the end index, capacity_ + traits::hop_bucket
EndIndex(t) == t.capacity + hop_bucket

get_bucket_index(t, k) == BitAnd(Hash(k), t.capacity - 1)

RECURSIVE find_scan(_, _, _, _)
find_scan(t, hops, index, k) ==
    IF hops = {} THEN EndIndex(t)
    ELSE IF 0 \in hops /\ t.keys[index] = k THEN index
    ELSE find_scan(t, Shr(hops), index + 1, k)

\* A variant of find_internal that scans the word without the shift, the
\* occupancy bit taken for the first displacement bit.
find_internal_unshifted(t, index, k) == find_scan(t, t.hops[index], index, k)

find_internal(t, index, k) == find_scan(t, Shr(t.hops[index]), index, k)

has(t, k) == find_internal(t, get_bucket_index(t, k), k) # EndIndex(t)

find_index(t, k) == find_internal(t, get_bucket_index(t, k), k)

\* iterator::next(): skip forward to a slot whose occupancy bit is set
RECURSIVE iter_next(_, _)
iter_next(t, index) ==
    IF index < EndIndex(t) /\ 0 \notin t.hops[index]
    THEN iter_next(t, index + 1)
    ELSE index

\* ------------------------------------------------------------- Dict and Set

HasValues(t) == t.kind = "Dict"

\* calloc'ed buffers of n slots
ZeroBuf(n) == [i \in 0 .. n - 1 |-> 0]

\* a calloc'ed hops_ buffer: n words with no bit set
ZeroHops(n) == [i \in 0 .. n - 1 |-> {}]

init_internal(kind, initial_size) ==
    LET cap == npot32(initial_size)
    IN  [kind     |-> kind,
         capacity |-> cap,
         size     |-> 0,
         keys     |-> ZeroBuf(cap + hop_bucket),
         hops     |-> ZeroHops(cap + hop_bucket),
         values   |-> IF kind = "Dict" THEN ZeroBuf(cap + hop_bucket) ELSE <<>>]

\* The result of insert: the table, the slot (Dict's iterator index), Set's
\* bool, whether the call returned at all (ok = FALSE: it needed a table
\* larger than MaxCap), and the expand() calls it made.  stray tells whether
\* the call read hops_ at an index of capacity_ + hop_bucket or more, or read
\* a word above idx in its displacement search.
InsResult(t, idx, inserted, grows, nested) ==
    [t |-> t, idx |-> idx, inserted |-> inserted, ok |-> TRUE,
     grows |-> grows, nested |-> nested, stray |-> FALSE]

InsAbandoned(t) ==
    [t |-> t, idx |-> 0, inserted |-> FALSE, ok |-> FALSE,
     grows |-> 0, nested |-> FALSE, stray |-> FALSE]

\* the result r of a call in which the reads told by stray were made as well
Noted(r, stray) == [r EXCEPT !.stray = r.stray \/ stray]

\* while((idx < probe_end) & (hops_[idx] & 1)) ++idx;
RECURSIVE linear_probe(_, _, _)
linear_probe(t, idx, probe_end) ==
    IF idx < probe_end /\ 0 \in t.hops[idx]
    THEN linear_probe(t, idx + 1, probe_end)
    ELSE idx

\* The indices of hops_ the probe loop reads: & evaluates both sides, so
\* hops_[idx] is read at every test of the condition, the last one included.
probe_reads(t, bucket_index, probe_end) ==
    bucket_index .. linear_probe(t, bucket_index, probe_end)

\* while(cursor <= offset && !(hops_[cursor] & hop_mask)) { ++cursor; hop_mask >>= 1; }
\* hop_mask is 1 << (offset - cursor + 1) throughout.
RECURSIVE scan_cursor(_, _, _)
scan_cursor(t, cursor, offset) ==
    IF cursor <= offset /\ Bit(t.hops[cursor], offset - cursor + 1) = 0
    THEN scan_cursor(t, cursor + 1, offset)
    ELSE cursor

\* do { ++offset; cursor = look_first; ... } while(offset < idx && cursor > offset);
\* offset is the value after ++offset (look_first - 1 + 1 on entry).
RECURSIVE search_entry(_, _, _, _)
search_entry(t, look_first, offset, idx) ==
    LET cursor == scan_cursor(t, look_first, offset)
    IN  IF offset < idx /\ cursor > offset
        THEN search_entry(t, look_first, offset + 1, idx)
        ELSE [offset |-> offset, cursor |-> cursor]

\* The indices of hops_ the displacement search reads: for each offset it
\* tries, hops_[cursor] from look_first on, while cursor <= offset.
search_reads(t, look_first, found) ==
    UNION {{c \in look_first .. scan_cursor(t, look_first, offset) : c <= offset} :
              offset \in look_first .. found.offset}

\* A variant of the move that leaves the value behind in values_[offset].
move_entry_without_value(t, cursor, offset, idx) ==
    [t EXCEPT
        !.keys[idx] = t.keys[offset],
        !.hops[cursor] = XorBit(OrBit(t.hops[cursor], idx - cursor + 1),
                                offset - cursor + 1)]

\* new (keys_ + idx) key_type(std::move(keys_[offset])), the same for values_,
\* and the two updates of the owner's word.
move_entry(t, cursor, offset, idx) ==
    [t EXCEPT
        !.keys[idx] = t.keys[offset],
        !.values = IF HasValues(t) THEN [t.values EXCEPT ![idx] = t.values[offset]]
                   ELSE t.values,
        !.hops[cursor] = XorBit(OrBit(t.hops[cursor], idx - cursor + 1),
                                offset - cursor + 1)]

\* the tail of insert: construct key and value at idx, set both bits, ++size_
place_entry(t, bucket_index, idx, key, value) ==
    LET t1 == [t EXCEPT
                  !.keys[idx] = key,
                  !.values = IF HasValues(t) THEN [t.values EXCEPT ![idx] = value]
                             ELSE t.values,
                  !.hops[idx] = OrBit(t.hops[idx], 0)]
    IN  [t1 EXCEPT
            !.hops[bucket_index] = OrBit(t1.hops[bucket_index], idx - bucket_index + 1),
            !.size = t.size + 1]

RECURSIVE insert(_, _, _, _)
RECURSIVE displace(_, _, _, _, _, _)
RECURSIVE grow_and_retry(_, _, _, _)
RECURSIVE expand(_, _)
RECURSIVE expand_loop(_, _, _, _, _)
RECURSIVE expand_span(_, _, _, _, _)

\* A variant of insert that assigns the value of a key that is already present.
insert_overwriting(t, key, value, depth) ==
    LET bucket_index == get_bucket_index(t, key)
        ins_pt       == find_internal(t, bucket_index, key)
    IN  IF ins_pt # EndIndex(t)
        THEN InsResult([t EXCEPT !.values = IF HasValues(t)
                                            THEN [t.values EXCEPT ![ins_pt] = value]
                                            ELSE t.values],
                       ins_pt, FALSE, 0, FALSE)
        ELSE LET probe_end == Min(bucket_index + probe_max, EndIndex(t))
                 idx       == linear_probe(t, bucket_index, probe_end)
             IN  IF idx = probe_end
                 THEN grow_and_retry(t, key, value, depth)
                 ELSE displace([t EXCEPT !.hops[idx] = OrBit(t.hops[idx], 0)],
                               bucket_index, idx, key, value, depth)

\* A variant of displace whose loop stops one slot later,
\* while(idx > bucket_index + traits::hop_bucket).
displace_one_further(t, bucket_index, idx, key, value, depth) ==
    IF idx > bucket_index + hop_bucket
    THEN LET look_first == IF idx < hop_bucket THEN 0 ELSE idx - hop_bucket + 1
             found      == search_entry(t, look_first, look_first, idx)
         IN  IF found.offset >= idx
             THEN grow_and_retry([t EXCEPT !.hops[idx] = XorBit(t.hops[idx], 0)],
                                 key, value, depth)
             ELSE displace(move_entry(t, found.cursor, found.offset, idx),
                           bucket_index, found.offset, key, value, depth)
    ELSE InsResult(place_entry(t, bucket_index, idx, key, value), idx, TRUE, 0, FALSE)

\* A variant of expand's loop that stops at old_cap, leaving out the hop_bucket
\* slots behind it.
expand_loop_to_capacity(old, old_cap, iter, cur, depth) ==
    expand_span(old, iter, old_cap, cur, depth)

\* Dict::insert(key_type&&, value_type&&) and Set::insert(key_type&&), which is
\* the same code without the values_ lines.  depth counts the expand() loops
\* the call is made from.
insert(t, key, value, depth) ==
    LET bucket_index == get_bucket_index(t, key)
        ins_pt       == find_internal(t, bucket_index, key)
    IN  IF ins_pt # EndIndex(t)
        THEN InsResult(t, ins_pt, FALSE, 0, FALSE)
        ELSE LET probe_end == Min(bucket_index + probe_max, EndIndex(t))
                 idx       == linear_probe(t, bucket_index, probe_end)
             IN  Noted(IF idx = probe_end
                       THEN grow_and_retry(t, key, value, depth)
                       ELSE displace([t EXCEPT !.hops[idx] = OrBit(t.hops[idx], 0)],
                                     bucket_index, idx, key, value, depth),
                       \E i \in probe_reads(t, bucket_index, probe_end) :
                           i >= EndIndex(t))

\* while(idx > bucket_index + traits::hop_bucket - 1) { ... } and the tail
displace(t, bucket_index, idx, key, value, depth) ==
    IF idx > bucket_index + hop_bucket - 1
    THEN LET look_first == IF idx < hop_bucket THEN 0 ELSE idx - hop_bucket + 1
             found      == search_entry(t, look_first, look_first, idx)
         IN  Noted(IF found.offset >= idx
                   THEN grow_and_retry([t EXCEPT !.hops[idx] = XorBit(t.hops[idx], 0)],
                                       key, value, depth)
                   ELSE displace(move_entry(t, found.cursor, found.offset, idx),
                                 bucket_index, found.offset, key, value, depth),
                   \E i \in search_reads(t, look_first, found) : i > idx)
    ELSE InsResult(place_entry(t, bucket_index, idx, key, value), idx, TRUE, 0, FALSE)

\* expand(); return insert(std::forward<key_type>(key), ...);
grow_and_retry(t, key, value, depth) ==
    LET e == expand(t, depth)
    IN  IF ~e.ok THEN InsAbandoned(t)
        ELSE LET r == insert(e.t, key, value, depth)
             IN  IF ~r.ok THEN InsAbandoned(t)
                 ELSE [r EXCEPT !.grows = r.grows + e.grows,
                                !.nested = r.nested \/ e.nested,
                                !.stray = r.stray \/ e.stray]

\* Dict::expand / Set::expand: double capacity_, fresh zeroed buffers, size_ = 0,
\* then reinsert every live slot of the old buffers in slot order.
expand(t, depth) ==
    IF t.capacity * 2 > MaxCap THEN InsAbandoned(t)
    ELSE LET cap == t.capacity * 2
             new == [kind     |-> t.kind,
                     capacity |-> cap,
                     size     |-> 0,
                     keys     |-> ZeroBuf(cap + hop_bucket),
                     hops     |-> ZeroHops(cap + hop_bucket),
                     values   |-> IF HasValues(t) THEN ZeroBuf(cap + hop_bucket)
                                  ELSE <<>>]
             r   == expand_loop(t, t.capacity, 0, new, depth + 1)
         IN  IF ~r.ok THEN r
             ELSE [r EXCEPT !.grows = r.grows + 1,
                            !.nested = r.nested \/ depth > 0]

\* The iterations lo .. hi - 1 of expand's loop, in order, starting from table
\* cur (the range is halved so that the evaluation does not nest one level per
\* slot):   if(old_hops[iter] & 1) insert(std::move(old_keys[iter]), ...);
expand_span(old, lo, hi, cur, depth) ==
    IF lo >= hi THEN InsResult(cur, 0, FALSE, 0, FALSE)
    ELSE IF hi = lo + 1
    THEN IF 0 \in old.hops[lo]
         THEN LET r == insert(cur, old.keys[lo],
                              IF HasValues(old) THEN old.values[lo] ELSE DefaultValue,
                              depth)
              IN  IF ~r.ok THEN r
                  ELSE Noted(InsResult(r.t, 0, FALSE, r.grows, r.nested), r.stray)
         ELSE InsResult(cur, 0, FALSE, 0, FALSE)
    ELSE LET mid   == (lo + hi) \div 2
             first == expand_span(old, lo, mid, cur, depth)
         IN  IF ~first.ok THEN first
             ELSE LET rest == expand_span(old, mid, hi, first.t, depth)
                  IN  IF ~rest.ok THEN rest
                      ELSE [rest EXCEPT !.grows = rest.grows + first.grows,
                                        !.nested = rest.nested \/ first.nested,
                                        !.stray = rest.stray \/ first.stray]

\* for(iter = 0; iter < old_cap + hop_bucket; ++iter) ...
expand_loop(old, old_cap, iter, cur, depth) ==
    expand_span(old, iter, old_cap + hop_bucket, cur, depth)

\* A variant of erase that leaves the displacement bit in the home word.
erase_keeping_hop_bit(t, key) ==
    LET bucket_index == get_bucket_index(t, key)
        index        == find_internal(t, bucket_index, key)
    IN  IF index # EndIndex(t)
        THEN [t |-> [t EXCEPT !.hops[index] = XorBit(t.hops[index], 0),
                              !.size = t.size - 1],
              ret |-> TRUE]
        ELSE [t |-> t, ret |-> FALSE]

\* A variant of erase that leaves the occupancy bit of the slot.
erase_keeping_slot(t, key) ==
    LET bucket_index == get_bucket_index(t, key)
        index        == find_internal(t, bucket_index, key)
    IN  IF index # EndIndex(t)
        THEN [t |-> [t EXCEPT !.hops[bucket_index] =
                                  XorBit(t.hops[bucket_index], index - bucket_index + 1),
                              !.size = t.size - 1],
              ret |-> TRUE]
        ELSE [t |-> t, ret |-> FALSE]

\* A variant of erase that forgets --size_.
erase_keeping_size(t, key) ==
    LET bucket_index == get_bucket_index(t, key)
        index        == find_internal(t, bucket_index, key)
    IN  IF index # EndIndex(t)
        THEN LET h1 == [t.hops EXCEPT
                           ![bucket_index] = XorBit(t.hops[bucket_index],
                                                    index - bucket_index + 1)]
                 h2 == [h1 EXCEPT ![index] = XorBit(h1[index], 0)]
             IN  [t |-> [t EXCEPT !.hops = h2], ret |-> TRUE]
        ELSE [t |-> t, ret |-> FALSE]

\* Dict::erase / Set::remove
erase(t, key) ==
    LET bucket_index == get_bucket_index(t, key)
        index        == find_internal(t, bucket_index, key)
    IN  IF index # EndIndex(t)
        THEN LET h1 == [t.hops EXCEPT
                           ![bucket_index] = XorBit(t.hops[bucket_index],
                                                    index - bucket_index + 1)]
                 h2 == [h1 EXCEPT ![index] = XorBit(h1[index], 0)]
             IN  [t |-> [t EXCEPT !.hops = h2, !.size = t.size - 1], ret |-> TRUE]
        ELSE [t |-> t, ret |-> FALSE]

\* A variant of get that answers a missing key with value_type().
get_value_initialised(t, key, default_value) ==
    LET iter == find_index(t, key)
    IN  IF iter # EndIndex(t) THEN t.values[iter] ELSE DefaultValue

\* Dict::get(const key_type&, const value_type&)
get(t, key, default_value) ==
    LET iter == find_index(t, key)
    IN  IF iter # EndIndex(t) THEN t.values[iter] ELSE default_value

\* A variant of operator[] whose reference is to the home slot of a new key.
index_op_home_slot(t, key) ==
    LET iter == find_index(t, key)
    IN  IF iter # EndIndex(t)
        THEN [t |-> t, ref |-> iter, ok |-> TRUE, grows |-> 0, nested |-> FALSE]
        ELSE LET r == insert(t, key, DefaultValue, 0)
             IN  [t |-> r.t, ref |-> get_bucket_index(r.t, key), ok |-> r.ok,
                  grows |-> r.grows, nested |-> r.nested]

\* Dict::operator[](const key_type&): the table after the call and the slot of
\* values_ the returned reference designates.
index_op(t, key) ==
    LET iter == find_index(t, key)
    IN  IF iter # EndIndex(t)
        THEN [t |-> t, ref |-> iter, ok |-> TRUE, grows |-> 0, nested |-> FALSE]
        ELSE LET r == insert(t, key, DefaultValue, 0)
             \* insert(...).operator->().value: the iterator is built from r.idx
             \* and its constructor runs next()
             IN  [t |-> r.t, ref |-> iter_next(r.t, r.idx), ok |-> r.ok,
                  grows |-> r.grows, nested |-> r.nested]

\* Dict::find / Set::find: the iterator {this, find_internal(...)}, whose
\* constructor runs next()
find(t, key) == iter_next(t, find_internal(t, get_bucket_index(t, key), key))

\* end(): the iterator {this, capacity_ + hop_bucket}
end(t) == iter_next(t, EndIndex(t))

\* begin(): the iterator {this, 0}
begin(t) == iter_next(t, 0)

\* iterator::operator++: ++index_; next();
iter_inc(t, index) == iter_next(t, index + 1)

\* for(auto it = begin(); it != end(); ++it): the slots visited, in order
RECURSIVE iterate_from(_, _)
iterate_from(t, it) ==
    IF it = end(t) THEN <<>>
    ELSE <<it>> \o iterate_from(t, iter_inc(t, it))

iterate(t) == iterate_from(t, begin(t))

\* iterator::operator--: if(index_ > 0) --index_; next();
iter_dec(t, index) == iter_next(t, IF index > 0 THEN index - 1 ELSE index)

\* The indices of hops_ that next() reads when it starts at index: the loop
\* condition is index_ < capacity() + hop_bucket && !(hops_[index_] & 1), and
\* && does not evaluate its right side when the left side is false.
next_reads_past_end(t, index) == index .. iter_next(t, index)

next_reads(t, index) == {i \in index .. iter_next(t, index) : i < EndIndex(t)}

\* The indices of hops_, keys_ and values_ read by the loop
\* for(auto it = begin(); it != end(); ++it) { *it; }: begin()'s and end()'s
\* constructors and each operator++ run next(), each operator* reads the
\* iterator's slot.
iterate_reads(t) ==
    LET visited == iterate(t)
    IN  next_reads(t, 0) \cup next_reads(t, EndIndex(t))
            \cup UNION {next_reads(t, visited[i] + 1) \cup {visited[i]} :
                           i \in 1 .. Len(visited)}

\* ---------------------------------------------------------------- behaviour

NoCall == [op |-> "construct", key |-> 0, val |-> 0, ret |-> 0, grows |-> 0]

\* No Set objects beside the table
NoObjects ==
    /\ mem = <<>>
    /\ objs = <<>>
    /\ fault = "none"
    /\ trivial = TRUE
    /\ expect = <<>>
    /\ call = [op |-> "none"]

Init ==
    /\ HopSize = 8
    /\ hsel \in HashSels
    /\ \E kind \in Kinds, initial_size \in InitSizes :
          table = init_internal(kind, initial_size)
    /\ live = {}
    /\ val = [k \in Keys |-> DefaultValue]
    /\ fresh = 0
    /\ erases = 0
    /\ cap0 = table.capacity
    /\ growths = 0
    /\ nestedSeen = FALSE
    /\ last = NoCall
    /\ NoObjects

\* Keys enter the table in the order 0, 1, 2, ... (which home bucket the n-th
\* key has is the Hash functor's choice); fresh is the next new key.  The
\* repeated keys that have been inserted once:
RepeatKeys == {k \in RepeatedKeys : k < fresh}

\* The keys insert and operator[] are handed: the next new key, and the repeat
\* keys.
Callable == {k \in Keys : k = fresh} \cup RepeatKeys

\* operator[] is handed repeat keys only, new or not.
Indexable == Callable \cap RepeatedKeys

Inserted(r, k, v, ret) ==
    /\ r.ok
    /\ table' = r.t
    /\ live' = live \cup {k}
    /\ val' = IF k \in live THEN val ELSE [val EXCEPT ![k] = v]
    /\ fresh' = IF k = fresh THEN fresh + 1 ELSE fresh
    /\ growths' = growths + r.grows
    /\ nestedSeen' = (nestedSeen \/ r.nested)
    /\ last' = [op |-> "insert", key |-> k, val |-> v, ret |-> ret, grows |-> r.grows]
    /\ UNCHANGED <<HopSize, hsel, erases, cap0>>
    /\ UNCHANGED objvars

\* bool Set::insert(const key_type&)
SetInsert(k) ==
    /\ table.kind = "Set"
    /\ LET r == insert(table, k, DefaultValue, 0)
       IN  Inserted(r, k, DefaultValue, r.inserted)

\* iterator Dict::insert(const key_type&, const value_type&)
DictInsert(k, v) ==
    /\ table.kind = "Dict"
    /\ v \in (IF k = fresh THEN {ValueOf(k)} ELSE {ValueOf(k), AltValue(k)})
    /\ LET r == insert(table, k, v, 0)
       IN  Inserted(r, k, v, iter_next(r.t, r.idx))

\* bool Dict::erase(const key_type&) / bool Set::remove(const key_type&)
Erase(k) ==
    /\ LET e == erase(table, k)
       IN  /\ e.ret => erases < MaxErase
           /\ table' = e.t
           /\ erases' = erases + (IF e.ret THEN 1 ELSE 0)
           /\ last' = [op |-> "erase", key |-> k, val |-> DefaultValue, ret |-> e.ret,
                       grows |-> 0]
    /\ live' = live \ {k}
    /\ val' = [val EXCEPT ![k] = DefaultValue]
    /\ UNCHANGED <<HopSize, hsel, fresh, cap0, growths, nestedSeen>>
    /\ UNCHANGED objvars

\* value_type& Dict::operator[](const key_type&)
DictIndex(k) ==
    /\ table.kind = "Dict"
    /\ LET r == index_op(table, k)
       IN  /\ r.ok
           /\ table' = r.t
           /\ growths' = growths + r.grows
           /\ nestedSeen' = (nestedSeen \/ r.nested)
           /\ last' = [op |-> "index", key |-> k, val |-> DefaultValue, ret |-> r.ref,
                       grows |-> r.grows]
    /\ live' = live \cup {k}
    /\ val' = IF k \in live THEN val ELSE [val EXCEPT ![k] = DefaultValue]
    /\ fresh' = IF k = fresh THEN fresh + 1 ELSE fresh
    /\ UNCHANGED <<HopSize, hsel, erases, cap0>>
    /\ UNCHANGED objvars

\* The slots of a table and those whose occupancy bit is set
Slots(t) == 0 .. EndIndex(t) - 1

Occupied(t) == {s \in Slots(t) : 0 \in t.hops[s]}

\* A default no stored value equals
MissingValue == MaxKey + 2

\* The const members assign nothing: iterator find(const key_type&) const
Find(k) ==
    /\ find(table, k) \in 0 .. EndIndex(table)
    /\ UNCHANGED vars

\* bool has(const key_type&) const
Has(k) ==
    /\ has(table, k) \in BOOLEAN
    /\ UNCHANGED vars

\* size_type find_index(const key_type&) const
FindIndex(k) ==
    /\ find_index(table, k) \in 0 .. EndIndex(table)
    /\ UNCHANGED vars

\* const value_type& Dict::get(const key_type&, const value_type&) const
Get(k) ==
    /\ table.kind = "Dict"
    /\ get(table, k, MissingValue) \in Int
    /\ UNCHANGED vars

\* for(auto it = begin(); it != end(); ++it)
Iterate ==
    /\ Len(iterate(table)) >= 0
    /\ UNCHANGED vars

\* --it, for an iterator it at a live slot or at end()
Positions == Occupied(table) \cup {EndIndex(table)}

Decrement(p) ==
    /\ iter_dec(table, p) \in Positions
    /\ UNCHANGED vars

Next ==
    \/ \E p \in Positions : Decrement(p)
    \/ \E k \in Callable : SetInsert(k)
    \/ \E k \in Callable : \E v \in {ValueOf(k), AltValue(k)} : DictInsert(k, v)
    \/ \E k \in RepeatKeys : Erase(k)
    \/ \E k \in Indexable : DictIndex(k)
    \/ \E k \in Callable : Find(k)
    \/ \E k \in Callable : Has(k)
    \/ \E k \in Callable : FindIndex(k)
    \/ \E k \in Callable : Get(k)
    \/ Iterate

Spec == Init /\ [][Next]_vars

\* --------------------------------------------------------------- properties

\* Every key of `among` is found in t, with the value `values` has for it when
\* t is a Dict, and no key is held twice: each occupied slot is the slot its
\* key is found at.
AllFound(t, among, values) ==
    /\ \A k \in among :
          /\ find(t, k) # end(t)
          /\ has(t, k)
          /\ HasValues(t) => get(t, k, MissingValue) = values[k]
    /\ \A s \in Occupied(t) : find_index(t, t.keys[s]) = s

\* C1: find(k) is not end() and has(k) is true exactly for the keys inserted and
\* not erased since; erase(k) leaves find(k) = end() and has(k) false, in the
\* table an erase call has just returned and in the one it would return now.
FindIffInsertedNotErased ==
    /\ \A k \in Keys :
          /\ (find(table, k) # end(table)) <=> (k \in live)
          /\ has(table, k) <=> (k \in live)
          /\ LET e == erase(table, k)
             IN  find(e.t, k) = end(e.t) /\ ~has(e.t, k)
    /\ last.op = "erase" =>
          find(table, last.key) = end(table) /\ ~has(table, last.key)

\* An erase has just removed a key that other keys share the table with
ErasedKeyNotFound ==
    /\ last.op = "erase"
    /\ last.ret = TRUE
    /\ find(table, last.key) = end(table)
    /\ \E k \in live : find(table, k) # end(table)

\* C2: growth neither loses nor duplicates entries: once expand has run (twice
\* or more and nested, from capacity 8, among the cases) every inserted key is
\* found, in exactly one slot, and size is the number of keys; and the table
\* expand would build from the current one has the same entries.
GrowthKeepsEntries ==
    /\ growths >= 1 =>
          /\ AllFound(table, live, val)
          /\ table.size = Cardinality(live)
          /\ \A s \in Occupied(table) : table.keys[s] \in live
    /\ LET e == expand(table, 0)
       IN  e.ok =>
              /\ AllFound(e.t, live, val)
              /\ e.t.size = Cardinality(live)
              /\ \A s \in Occupied(e.t) : e.t.keys[s] \in live

\* Ten keys went into a table of capacity 8 that grew twice, once from inside
\* the reinsertion loop of the other growth
GrewTwiceNested ==
    /\ cap0 = 8
    /\ growths >= 2
    /\ nestedSeen
    /\ Cardinality(live) = MaxKey + 1
    /\ table.size = MaxKey + 1

\* C3: insert of a present key changes nothing (same size, same stored value
\* whatever value the call carries) and Set::insert returns false; insert of an
\* absent key returns true (Set) and adds one entry, with or without growth.
\* The keys are the present ones and those the next call can carry.
DuplicateInsertIsNoOp ==
    \A k \in live \cup Callable : \A v \in {ValueOf(k), AltValue(k)} :
        LET r == insert(table, k, v, 0)
        IN  r.ok =>
               /\ r.inserted <=> (k \notin live)
               /\ k \in live =>
                     /\ r.t = table
                     /\ r.t.size = table.size
                     /\ HasValues(table) => get(r.t, k, MissingValue) = val[k]
               /\ k \notin live =>
                     /\ r.t.size = table.size + 1
                     /\ has(r.t, k)

\* A Dict that has grown was handed a present key with another value
DuplicateInsertSeen ==
    /\ last.op = "insert"
    /\ table.kind = "Dict"
    /\ last.val # val[last.key]
    /\ get(table, last.key, MissingValue) = val[last.key]
    /\ growths >= 1

\* C4: size() is the number of slots of [0, capacity + hop_bucket) whose
\* occupancy bit is set.
SizeIsOccupancyCount == table.size = Cardinality(Occupied(table))

\* An insert that fell back to growth, in a table a key was erased from
GrownAfterErase ==
    /\ last.op = "insert"
    /\ last.grows > 0
    /\ erases >= 1
    /\ table.size > 0

\* C5: every live key sits at a slot s with bucket <= s <= bucket + hop_bucket,
\* bucket being hash & (capacity - 1); the code keeps s <= bucket + hop_bucket - 1,
\* the last slot the displacement bits 1 .. hop_bucket of the home word name.
LiveKeyInNeighbourhood ==
    \A s \in Occupied(table) :
        LET bucket == get_bucket_index(table, table.keys[s])
        IN  /\ bucket <= s
            /\ s <= bucket + hop_bucket
            /\ s <= bucket + hop_bucket - 1

\* A key sits in an overflow slot, as far from its bucket as the code allows
KeyAtNeighbourhoodEdge ==
    \E s \in Occupied(table) :
        /\ s >= table.capacity
        /\ s = get_bucket_index(table, table.keys[s]) + hop_bucket - 1
        /\ table.keys[s] \in live

IsPowerOfTwo(n) == \E e \in 0 .. 30 : n = Pow2(e)

\* C6: after construction and after any insert or growth, capacity is a power
\* of two and at least HopSize, whatever initial size was requested.  The code
\* has no lower limit in init_internal: a requested size of 3 gives capacity 4.
CapacityPowerOfTwoAtLeastHopSize ==
    /\ IsPowerOfTwo(table.capacity)
    /\ table.capacity >= HopSize

\* C7: size <= capacity in every reachable state.  The code lets the hop_bucket
\* slots behind capacity - 1 fill before it expands: a table constructed with
\* capacity HopSize comes to hold more than capacity entries.
SizeAtMostCapacity ==
    cap0 >= HopSize => table.size <= table.capacity

\* C8: erase(k) returns true iff k is present; then size drops by one, the
\* occupancy bit of k's slot and its displacement bit in the home word are
\* cleared, nothing else changes, and every other live key is still found with
\* its value; when it returns false the table is unchanged.
EraseEffect ==
    \A k \in Keys :
        LET e            == erase(table, k)
            bucket_index == get_bucket_index(table, k)
            index        == find_index(table, k)
        IN  /\ e.ret <=> (k \in live)
            /\ e.ret =>
                  /\ e.t.size = table.size - 1
                  /\ e.t.capacity = table.capacity
                  /\ 0 \notin e.t.hops[index]
                  /\ Bit(e.t.hops[bucket_index], index - bucket_index + 1) = 0
                  /\ Occupied(e.t) = Occupied(table) \ {index}
                  /\ e.t.keys = table.keys
                  /\ e.t.values = table.values
                  /\ \A s \in Slots(table) \ {index, bucket_index} :
                        e.t.hops[s] = table.hops[s]
                  /\ AllFound(e.t, live \ {k}, val)
            /\ ~e.ret => e.t = table

\* An erase has just returned true for a key that was not in its home slot,
\* leaving other keys of the same bucket
ErasedDisplacedKey ==
    /\ last.op = "erase"
    /\ last.ret = TRUE
    /\ Shr(table.hops[get_bucket_index(table, last.key)]) # {}
    /\ table.keys[get_bucket_index(table, last.key)] # last.key
    /\ live # {}

\* C9: operator[](k) of a present key refers to the value stored for k and
\* leaves the table alone; of an absent key it inserts k with value_type(),
\* size grows by one, and the reference is to the slot of values_ that holds k
\* after any relocation or growth; the other keys keep their values.
IndexOperatorEffect ==
    table.kind = "Dict" =>
        \A k \in live \cup Callable :
            LET r == index_op(table, k)
            IN  r.ok =>
                   /\ r.ref \in Occupied(r.t)
                   /\ r.t.keys[r.ref] = k
                   /\ r.ref = find_index(r.t, k)
                   /\ k \in live =>
                         /\ r.t = table
                         /\ r.t.values[r.ref] = val[k]
                   /\ k \notin live =>
                         /\ r.t.size = table.size + 1
                         /\ r.t.values[r.ref] = DefaultValue
                         /\ AllFound(r.t, live, val)

\* operator[] has just inserted an absent key through a growth, and its
\* reference is to the key's slot
IndexInsertedThroughGrowth ==
    /\ last.op = "index"
    /\ last.grows > 0
    /\ table.keys[last.ret] = last.key
    /\ table.values[last.ret] = DefaultValue
    /\ table.size > 1

\* C10: find, has, find_index, get and forward iteration leave keys, values,
\* bitmaps, size and capacity as they are (the steps that call them change no
\* variable); get(k, d) is the stored value of a present key and d for an
\* absent one, which stays absent; iteration visits the occupied slots once
\* each in slot order.
ReadsDoNotModify ==
    /\ \A k \in Keys :
          /\ find(table, k) \in Slots(table) \cup {EndIndex(table)}
          /\ find_index(table, k) = find(table, k)
          /\ HasValues(table) =>
                get(table, k, MissingValue)
                    = (IF k \in live THEN val[k] ELSE MissingValue)
          /\ k \notin live => ~has(table, k) /\ find(table, k) = end(table)
    /\ LET visited == iterate(table)
       IN  /\ Len(visited) = table.size
           /\ {visited[i] : i \in 1 .. Len(visited)} = Occupied(table)
           /\ \A i \in 1 .. Len(visited) - 1 : visited[i] < visited[i + 1]

\* A Dict is read for a key that was erased and whose stale copy is still in
\* keys_, next to live keys
ReadOfErasedKey ==
    /\ table.kind = "Dict"
    /\ live # {}
    /\ \E k \in Keys \ live :
          /\ \E s \in Slots(table) \ Occupied(table) :
                table.keys[s] = k /\ table.values[s] = ValueOf(k)
          /\ get(table, k, MissingValue) = MissingValue
          /\ find(table, k) = end(table)

\* ------------------------------------------------------------ Set algebra

\* The outcome of an assignment operator on a set: the set afterwards,
\* whether the call returned (see InsAbandoned), and the expand() calls made.
SetResult(t, grows) == [t |-> t, ok |-> TRUE, grows |-> grows]

SetAbandoned(t) == [t |-> t, ok |-> FALSE, grows |-> 0]

\* std::copy(other.keys_, other.keys_ + capacity_ + hop_bucket, keys_) and the
\* same for hops_, into calloc'ed buffers: the table Set::clone leaves.
clone(other) ==
    [kind     |-> "Set",
     capacity |-> other.capacity,
     size     |-> other.size,
     keys     |-> [i \in 0 .. other.capacity + hop_bucket - 1 |-> other.keys[i]],
     hops     |-> [i \in 0 .. other.capacity + hop_bucket - 1 |-> other.hops[i]],
     values   |-> <<>>]

\* A variant of operator&= that stops at the first element it removes.
RECURSIVE and_loop_one_removal(_, _, _)
and_loop_one_removal(self, other, it) ==
    IF it = end(self) THEN self
    ELSE IF ~has(other, self.keys[it]) THEN erase(self, self.keys[it]).t
    ELSE and_loop_one_removal(self, other, iter_inc(self, it))

\* operator&=: for(const auto &e : *this) if(!other.has(e)) remove(e);
\* `it` is the iterator of the range-for over the set being changed.
RECURSIVE and_loop(_, _, _)
and_loop(self, other, it) ==
    IF it = end(self) THEN self
    ELSE LET e  == self.keys[it]
             s1 == IF ~has(other, e) THEN erase(self, e).t ELSE self
         IN  and_loop(s1, other, iter_inc(s1, it))

and_assign(self, other) == SetResult(and_loop(self, other, begin(self)), 0)

\* operator|=: for(const auto &e : other) insert(e);
\* or_inserted continues the loop with the outcome r of the insert.
RECURSIVE or_loop(_, _, _, _)
or_inserted(r, self, other, it, grows) ==
    IF ~r.ok THEN SetAbandoned(self)
    ELSE or_loop(r.t, other, iter_inc(other, it), grows + r.grows)

or_loop(self, other, it, grows) ==
    IF it = end(other) THEN SetResult(self, grows)
    ELSE or_inserted(insert(self, other.keys[it], DefaultValue, 0),
                     self, other, it, grows)

or_assign(self, other) == or_loop(self, other, begin(other), 0)

\* operator-=: for(const auto &e : other) if(this->has(e)) remove(e);
RECURSIVE minus_loop(_, _, _)
minus_loop(self, other, it) ==
    IF it = end(other) THEN self
    ELSE LET e  == other.keys[it]
             s1 == IF has(self, e) THEN erase(self, e).t ELSE self
         IN  minus_loop(s1, other, iter_inc(other, it))

minus_assign(self, other) == SetResult(minus_loop(self, other, begin(other)), 0)

\* A variant of operator^= that removes the common elements only.
xor_loop_removing(self, other, it, grows) ==
    SetResult(minus_loop(self, other, it), grows)

\* operator^=: for(const auto &e : other) if(this->has(e)) remove(e); else insert(e);
\* xor_inserted continues the loop with the outcome r of the insert.
RECURSIVE xor_loop(_, _, _, _)
xor_inserted(r, self, other, it, grows) ==
    IF ~r.ok THEN SetAbandoned(self)
    ELSE xor_loop(r.t, other, iter_inc(other, it), grows + r.grows)

xor_loop(self, other, it, grows) ==
    IF it = end(other) THEN SetResult(self, grows)
    ELSE IF has(self, other.keys[it])
    THEN xor_loop(erase(self, other.keys[it]).t, other, iter_inc(other, it), grows)
    ELSE xor_inserted(insert(self, other.keys[it], DefaultValue, 0),
                      self, other, it, grows)

xor_assign(self, other) == xor_loop(self, other, begin(other), 0)

\* for(const auto &e : small) if(large.has(e)) return true;
RECURSIVE any_in(_, _, _)
any_in(small, large, it) ==
    IF it = end(small) THEN FALSE
    ELSE IF has(large, small.keys[it]) THEN TRUE
    ELSE any_in(small, large, iter_inc(small, it))

\* A variant of intersects that tries the first element of the walk only.
intersects_first_element(self, other) ==
    IF other.size > self.size
    THEN begin(self) # end(self) /\ has(other, self.keys[begin(self)])
    ELSE begin(other) # end(other) /\ has(self, other.keys[begin(other)])

\* bool Set::intersects(const Set &other)
intersects(self, other) ==
    IF other.size > self.size
    THEN any_in(self, other, begin(self))
    ELSE any_in(other, self, begin(other))

\* The assignment operators called with the set itself as `other`: the
\* range-for walks the buffers the loop body changes.  e is a reference to
\* keys_[it]; the end iterator is taken once, before the loop.
SelfOps == {"&=", "|=", "-=", "^="}

\* the loop body of the operator for element e, as the outcome of an insert
self_body(op, self, e) ==
    CASE op = "&=" -> InsResult(IF ~has(self, e) THEN erase(self, e).t ELSE self,
                                0, FALSE, 0, FALSE)
      [] op = "|=" -> insert(self, e, DefaultValue, 0)
      [] op = "-=" -> InsResult(IF has(self, e) THEN erase(self, e).t ELSE self,
                                0, FALSE, 0, FALSE)
      [] op = "^=" -> IF has(self, e)
                      THEN InsResult(erase(self, e).t, 0, FALSE, 0, FALSE)
                      ELSE insert(self, e, DefaultValue, 0)

RECURSIVE self_loop(_, _, _, _, _)
\* ++it on the set as the body with outcome r left it
self_next(r, op, it, end0, grows) ==
    IF ~r.ok THEN SetAbandoned(r.t)
    ELSE self_loop(op, r.t, iter_inc(r.t, it), end0, grows + r.grows)

\* A variant of the loop in which removing the element under the iterator
\* also steps the iterator, so that ++it passes over the next element.
self_loop_skipping(op, self, it, end0, grows) ==
    IF it >= end0 THEN [t |-> self, ok |-> it = end0, grows |-> grows]
    ELSE IF op \in {"-=", "^="} /\ has(self, self.keys[it])
    THEN self_loop(op, erase(self, self.keys[it]).t,
                   Min(end0, iter_inc(self, iter_inc(self, it))), end0, grows)
    ELSE self_next(self_body(op, self, self.keys[it]), op, it, end0, grows)

\* for(it = begin(); it != end0; ++it) body(*it).  An iterator that has
\* passed end0 (the buffers grew under it) never compares equal to it.
self_loop(op, self, it, end0, grows) ==
    IF it >= end0 THEN [t |-> self, ok |-> it = end0, grows |-> grows]
    ELSE self_next(self_body(op, self, self.keys[it]), op, it, end0, grows)

\* A op= A
self_assign(op, self) == self_loop(op, self, begin(self), end(self), 0)

\* ------------------------------------------------- Set objects and storage

\* nullptr
Null == 0

\* A block of the heap: live until std::free is handed its address
Block(data) == [live |-> TRUE, data |-> data]

Freed == [live |-> FALSE, data |-> <<>>]

\* The objects, the heap and the fault flag as one value, so that the steps of
\* a member function compose
Machine == [mem |-> mem, objs |-> objs, fault |-> fault]

\* HopscotchBase(): keys_{nullptr}, hops_{nullptr}, size_{0}, capacity_{0}
BaseObject == [capacity |-> 0, size |-> 0, keys_ |-> Null, hops_ |-> Null]

Faulted(st, what) == [st EXCEPT !.fault = IF st.fault = "none" THEN what ELSE st.fault]

\* whether a points at a block that has not been freed
Readable(st, a) == a # Null /\ a \in DOMAIN st.mem /\ st.mem[a].live

\* std::free(a): nothing for nullptr; a second free of a block is undefined
free(st, a) ==
    IF a = Null THEN st
    ELSE IF ~st.mem[a].live THEN Faulted(st, "double free")
    ELSE [st EXCEPT !.mem[a] = Freed]

\* The table an object's members describe.  Only for objects whose keys_ and
\* hops_ are readable.
View(st, name) ==
    LET o == st.objs[name]
    IN  [kind     |-> "Set",
         capacity |-> o.capacity,
         size     |-> o.size,
         keys     |-> st.mem[o.keys_].data,
         hops     |-> st.mem[o.hops_].data,
         values   |-> <<>>]

Usable(st, name) ==
    /\ name \in DOMAIN st.objs
    /\ Readable(st, st.objs[name].keys_)
    /\ Readable(st, st.objs[name].hops_)

\* keys_ = calloc(...); hops_ = calloc(...) holding the buffers of table t,
\* with capacity_ and size_ set from t
Allocate(st, name, t) ==
    LET a == Len(st.mem) + 1
    IN  [st EXCEPT
            !.mem  = st.mem \o <<Block(t.keys), Block(t.hops)>>,
            !.objs = [n \in DOMAIN st.objs \cup {name} |->
                         IF n = name
                         THEN [capacity |-> t.capacity, size |-> t.size,
                               keys_ |-> a, hops_ |-> a + 1]
                         ELSE st.objs[n]]]

\* The writes of a member function that keeps its buffers, through keys_ and
\* hops_
StoreInPlace(st, name, t) ==
    LET o == st.objs[name]
    IN  [st EXCEPT
            !.mem  = [a \in DOMAIN st.mem |->
                         IF a = o.keys_ THEN Block(t.keys)
                         ELSE IF a = o.hops_ THEN Block(t.hops)
                         ELSE st.mem[a]],
            !.objs[name] = [o EXCEPT !.capacity = t.capacity, !.size = t.size]]

\* The effect of a member function that left table t: in place when expand
\* did not run, else through the buffers expand allocated, the old ones freed
Settle(st, name, t, grows) ==
    IF grows = 0 THEN StoreInPlace(st, name, t)
    ELSE LET o == st.objs[name]
         IN  Allocate(free(free(st, o.keys_), o.hops_), name, t)

\* sizeof(hop_type)
WordBytes == HopSize \div 8

\* The bits of a word that its byte j (in address order) holds
ByteBits(j, little_endian) ==
    IF little_endian THEN 8 * j .. 8 * j + 7
    ELSE 8 * (WordBytes - 1 - j) .. 8 * (WordBytes - 1 - j) + 7

\* Set::clear_internal(std::true_type):
\*     std::memset(hops_, 0, capacity_ + traits::hop_bucket); size_ = 0;
\* memset counts bytes: the first capacity_ + hop_bucket bytes of hops_ are
\* zeroed, whatever sizeof(hop_type) is.
clear_internal(t, little_endian) ==
    LET n         == t.capacity + hop_bucket
        zeroed(i) == UNION {ByteBits(j, little_endian) :
                               j \in {b \in 0 .. WordBytes - 1 : i * WordBytes + b < n}}
    IN  [t EXCEPT !.hops = [i \in DOMAIN t.hops |-> t.hops[i] \ zeroed(i)],
                  !.size = 0]

\* Set(size_type initial_size): the base constructor, then init_internal
o_construct(st, name, initial_size) ==
    Allocate(st, name, init_internal("Set", initial_size))

\* Set::reset_internal.  For a key type with a destructor the false_type
\* overload first walks hops_[0 .. capacity_ + hop_bucket), whatever hops_ is.
o_reset_internal(st, name) ==
    LET o       == st.objs[name]
        scanned == IF trivial \/ Readable(st, o.hops_) THEN st
                   ELSE Faulted(st, IF o.hops_ = Null THEN "read through nullptr"
                                    ELSE "read of freed storage")
    IN  IF scanned.fault # "none" THEN scanned
        ELSE LET released == free(free(scanned, o.keys_), o.hops_)
             IN  [released EXCEPT !.objs[name] = BaseObject]

\* A variant of clone that takes over the other set's buffers.
o_clone_sharing(st, name, other) ==
    LET st1 == o_reset_internal(st, name)
    IN  IF st1.fault # "none" THEN st1
        ELSE [st1 EXCEPT !.objs[name] = st1.objs[other]]

\* Set::clone(const Set &other)
o_clone(st, name, other) ==
    LET st1 == o_reset_internal(st, name)
        src == st1.objs[other]
    IN  IF st1.fault # "none" THEN st1
        ELSE IF ~(Readable(st1, src.keys_) /\ Readable(st1, src.hops_))
        THEN Faulted(st1, "copy from storage the other set does not own")
        ELSE Allocate(st1, name, clone(View(st1, other)))

\* A variant of the copy constructor whose object points at the other set's
\* buffers.
o_copy_construct_aliasing(st, name, other) ==
    [st EXCEPT !.objs = [n \in DOMAIN st.objs \cup {name} |->
                            IF n = name THEN st.objs[other] ELSE st.objs[n]]]

\* Set(const Set &other) : Set() { clone(other); }
o_copy_construct(st, name, other) ==
    o_clone(o_construct(st, name, HopSize), name, other)

\* Set(Set &&other): HopscotchBase(), then the four std::swap calls
o_move_construct(st, name, other) ==
    [st EXCEPT !.objs = [n \in DOMAIN st.objs \cup {name} |->
                            IF n = name THEN st.objs[other]
                            ELSE IF n = other THEN BaseObject
                            ELSE st.objs[n]]]

\* ~Set(): reset_internal, after which the object is gone
o_destroy(st, name) ==
    LET st1 == o_reset_internal(st, name)
    IN  IF st1.fault # "none" THEN st1
        ELSE [st1 EXCEPT !.objs = [n \in DOMAIN st1.objs \ {name} |-> st1.objs[n]]]

\* --------------------------------------------------- operators on objects

\* the assignment operator `op` of Set, on tables
OpAssign(op, self, other) ==
    CASE op = "&" -> and_assign(self, other)
      [] op = "|" -> or_assign(self, other)
      [] op = "-" -> minus_assign(self, other)
      [] op = "^" -> xor_assign(self, other)

\* The machine after a member function of `name` that left the outcome r,
\* whether it returned, and its expand() calls
Settled(st, name, r) ==
    [st |-> Settle(st, name, r.t, r.grows), ok |-> r.ok, grows |-> r.grows]

\* void operator&=, |=, -=, ^= (const Set &other) on the object `name`
o_op_assign(st, op, name, other) ==
    Settled(st, name, OpAssign(op, View(st, name), View(st, other)))

\* A op= A on the object `name`
o_self_assign(st, op, name) == Settled(st, name, self_assign(op, View(st, name)))

\* `return ret;` of a function returning Set: the local is the result object
\* where the copy is elided, else the result is move-constructed from the
\* local and the local destroyed.
return_by_value(st, name, local, elide) ==
    IF elide
    THEN [st EXCEPT !.objs = [n \in (DOMAIN st.objs \ {local}) \cup {name} |->
                                 IF n = name THEN st.objs[local] ELSE st.objs[n]]]
    ELSE o_destroy(o_move_construct(st, name, local), local)

\* The set operator| copies: the larger operand (this on a tie); the other
\* operators copy *this.
CopiedOperand(st, op, a, b) ==
    IF op = "|" /\ st.objs[b].size > st.objs[a].size THEN b ELSE a

\* return ret; after ret op= ... with outcome r
Returned(r, name, elide) ==
    [st |-> return_by_value(r.st, name, "ret", elide), ok |-> r.ok, grows |-> r.grows]

\* Set operator&, |, -, ^ (const Set &other): Set ret(...); ret op= ...; return ret;
o_binary(st, op, a, b, name, elide) ==
    Returned(o_op_assign(o_copy_construct(st, "ret", CopiedOperand(st, op, a, b)),
                         op, "ret",
                         IF CopiedOperand(st, op, a, b) = a THEN b ELSE a),
             name, elide)

\* the elements of a table, by has() and by iteration
Members(t) == {k \in Keys : has(t, k)}

Walked(t) == {t.keys[iterate(t)[i]] : i \in 1 .. Len(iterate(t))}

NoHeap == [mem |-> <<>>, objs |-> <<>>, fault |-> "none"]

\* The table variables of a behaviour that is about Set objects only
NoTable ==
    /\ table = init_internal("Set", HopSize)
    /\ live = {}
    /\ val = [k \in Keys |-> DefaultValue]
    /\ fresh = 0
    /\ erases = 0
    /\ cap0 = table.capacity
    /\ growths = 0
    /\ nestedSeen = FALSE
    /\ last = NoCall

\* ---------------------------------------------------- behaviour: set algebra

SetOps == {"&", "|", "-", "^"}

\* the first elements of the ranges the operand sets are filled with
RangeStarts == {0, 4}

\* A and B are two Set<int, Hash, 8>, A constructed with a requested size.
InitSets ==
    /\ HopSize = 8
    /\ hsel \in HashSels
    /\ NoTable
    /\ trivial = TRUE
    /\ expect = [n \in {"A", "B"} |-> {}]
    /\ \E sa \in InitSizes :
          LET st == o_construct(o_construct(NoHeap, "A", sa), "B", HopSize)
          IN  mem = st.mem /\ objs = st.objs /\ fault = st.fault
    /\ call = [op |-> "none", assign |-> FALSE, elide |-> FALSE,
               ret |-> FALSE, grows |-> 0, x |-> "A", y |-> "B",
               lhs |-> init_internal("Set", HopSize),
               rhs |-> init_internal("Set", HopSize)]

\* The next key of the range an operand is filled with
NextOf(name) ==
    IF expect[name] = {} THEN RangeStarts
    ELSE {k \in Keys : k - 1 \in expect[name] /\ k \notin expect[name]}

\* the objects and the heap after a call with outcome r
BecomesOutcome(r) ==
    r.ok /\ mem' = r.st.mem /\ objs' = r.st.objs /\ fault' = r.st.fault

\* bool Set::insert(const key_type&) on the object `name`
o_insert(st, name, k) ==
    Settled(st, name, insert(View(st, name), k, DefaultValue, 0))

\* x.insert(k), for the next key of x's range
Fill ==
    \E name \in {"A", "B"} : \E k \in NextOf(name) :
       /\ call.op = "none"
       /\ name = "A" => expect["B"] = {}
       /\ BecomesOutcome(o_insert(Machine, name, k))
       /\ expect' = [expect EXCEPT ![name] = @ \cup {k}]
       /\ UNCHANGED <<HopSize, hsel, trivial, call>>
       /\ UNCHANGED tabvars

Operands == {<<"A", "B">>, <<"B", "A">>}

Fresh == "R" \notin DOMAIN objs /\ call.op = "none"

\* the ghost record of a set operator with outcome r
Called(r, op, assign, elide, x, y) ==
    call' = [op |-> op, assign |-> assign, elide |-> elide, ret |-> FALSE,
             grows |-> r.grows, x |-> x, y |-> y,
             lhs |-> View(Machine, x), rhs |-> View(Machine, y)]

Done(r, op, assign, elide, x, y) ==
    BecomesOutcome(r) /\ Called(r, op, assign, elide, x, y)

\* Set R = x op y;
Binary ==
    \E op \in SetOps, xy \in Operands, elide \in BOOLEAN :
       /\ Fresh
       /\ Done(o_binary(Machine, op, xy[1], xy[2], "R", elide),
               op, FALSE, elide, xy[1], xy[2])
       /\ UNCHANGED <<HopSize, hsel, trivial, expect>>
       /\ UNCHANGED tabvars

\* A op= B;
Assign ==
    \E op \in SetOps :
       /\ Fresh
       /\ Done(o_op_assign(Machine, op, "A", "B"), op, TRUE, FALSE, "A", "B")
       /\ UNCHANGED <<HopSize, hsel, trivial, expect>>
       /\ UNCHANGED tabvars

\* bool r = A.intersects(B);
Intersects ==
    /\ Fresh
    /\ call' = [op |-> "intersects", assign |-> FALSE, elide |-> FALSE,
                ret |-> intersects(View(Machine, "A"), View(Machine, "B")),
                grows |-> 0, x |-> "A", y |-> "B",
                lhs |-> View(Machine, "A"), rhs |-> View(Machine, "B")]
    /\ UNCHANGED <<HopSize, hsel, mem, objs, fault, trivial, expect>>
    /\ UNCHANGED tabvars

\* A op= A;
AssignSelf ==
    \E op \in SelfOps :
       /\ Fresh
       /\ Done(o_self_assign(Machine, op, "A"), op, TRUE, FALSE, "A", "A")
       /\ UNCHANGED <<HopSize, hsel, trivial, expect>>
       /\ UNCHANGED tabvars

NextSets == Fill \/ Binary \/ Assign \/ Intersects \/ AssignSelf

SpecSets == InitSets /\ [][NextSets]_vars

\* ----------------------------------------------------- properties: set algebra

\* the object a set operator left its result in
ResultName == IF call.assign THEN "A" ELSE "R"

\* the set the operator is to compute from the elements of its operands
Algebra(op, a, b) ==
    CASE op = "&" -> a \cap b
      [] op = "|" -> a \cup b
      [] op = "-" -> a \ b
      [] op = "^" -> (a \ b) \cup (b \ a)

\* whether the result object holds exactly the elements of `want`: by has(),
\* by iteration, and by size()
Holds(want) ==
    /\ fault = "none"
    /\ Usable(Machine, ResultName)
    /\ LET res == View(Machine, ResultName)
       IN  /\ Members(res) = want
           /\ Walked(res) = want
           /\ Len(iterate(res)) = Cardinality(want)
           /\ res.size = Cardinality(want)

IntersectionRemovedWhileWalking ==
    /\ call.op = "&"
    /\ call.assign
    /\ Cardinality(expect["A"] \ expect["B"]) >= 2
    /\ expect["A"] \cap expect["B"] # {}

\* (x - y) | (y - x), computed by the operators themselves on copies of the
\* operands
DifferencesUnited(x, y) ==
    LET xy == minus_assign(clone(x), y).t
        yx == minus_assign(clone(y), x).t
    IN  IF yx.size > xy.size THEN or_assign(clone(yx), xy)
        ELSE or_assign(clone(xy), yx)

\* C12: A ^ B (and ^=) has the same elements as (A - B) | (B - A): each
\* element of B that A contains is removed, each that A lacks is inserted.
SymmetricDifference ==
    call.op = "^" =>
        /\ Holds((expect[call.x] \ expect[call.y]) \cup (expect[call.y] \ expect[call.x]))
        /\ LET u == DifferencesUnited(call.lhs, call.rhs)
           IN  u.ok => Members(View(Machine, ResultName)) = Members(u.t)

\* a symmetric difference that both removed and inserted elements
SymmetricDifferenceBothWays ==
    /\ call.op = "^"
    /\ expect[call.x] \cap expect[call.y] # {}
    /\ expect[call.x] \ expect[call.y] # {}
    /\ Cardinality(expect[call.y] \ expect[call.x]) >= 2
    /\ Holds((expect[call.x] \ expect[call.y]) \cup (expect[call.y] \ expect[call.x]))

\* C13: A.intersects(B) is true exactly when A & B is not empty, whichever of
\* the two is the larger, and false when either of them is empty.
IntersectsIffCommonElement ==
    call.op = "intersects" =>
        /\ call.ret = (expect["A"] \cap expect["B"] # {})
        /\ call.ret = (and_assign(clone(call.lhs), call.rhs).t.size > 0)
        /\ call.ret = intersects(call.rhs, call.lhs)
        /\ (expect["A"] = {} \/ expect["B"] = {}) => ~call.ret

\* intersects() answered true walking the smaller set, whose first elements
\* the larger one lacks
IntersectsFoundLate ==
    /\ call.op = "intersects"
    /\ call.ret
    /\ call.lhs.size < call.rhs.size
    /\ ~has(call.rhs, call.lhs.keys[begin(call.lhs)])

\* whether object `name` still is the table `before`: same elements, size and
\* capacity, in storage it still owns
Unchanged(name, before) ==
    /\ Usable(Machine, name)
    /\ LET now == View(Machine, name)
       IN  /\ Members(now) = Members(before)
           /\ Walked(now) = Walked(before)
           /\ now.size = before.size
           /\ now.capacity = before.capacity

\* the addresses an object's members hold
Buffers(name) == {objs[name].keys_, objs[name].hops_}

MaxWide == 40

WideSize == 8

WideKeys == 1 .. MaxWide

InitWide ==
    /\ HopSize \in HopSizes
    /\ hsel \in HashSels
    /\ \E kind \in Kinds : table = init_internal(kind, WideSize)
    /\ live = {}
    /\ val = [k \in WideKeys |-> DefaultValue]
    /\ fresh = 1
    /\ erases = 0
    /\ cap0 = table.capacity
    /\ growths = 0
    /\ nestedSeen = FALSE
    /\ last = NoCall
    /\ NoObjects

Filling == last.op \in {"construct", "insert"}

\* set.insert(k) for the next key
WideSetInsert ==
    \E k \in WideKeys : Filling /\ k = fresh /\ SetInsert(k)

\* dict.insert(k, v) for the next key
WideDictInsert ==
    \E k \in WideKeys : Filling /\ k = fresh /\ DictInsert(k, ValueOf(k))

\* void Set::clear(), on a machine of either byte order
WideClear ==
    \E little_endian \in BOOLEAN :
       /\ Filling
       /\ table.kind = "Set"
       /\ table' = clear_internal(table, little_endian)
       /\ live' = {}
       /\ last' = [op |-> "clear", key |-> 0, val |-> table.capacity, ret |-> 0,
                   grows |-> 0]
       /\ UNCHANGED <<HopSize, hsel, val, fresh, erases, cap0, growths, nestedSeen>>
       /\ UNCHANGED objvars

NextWide == WideSetInsert \/ WideDictInsert \/ WideClear

SpecWide == InitWide /\ [][NextWide]_vars

\* ------------------------------------------------------- properties: clear

\* C15: after Set::clear(), for HopSize 8, 16 and 32 alike, size() is 0,
\* every word of the bitmap over [0, capacity + hop_bucket) is zero (has(k) is
\* false for every key, iteration yields nothing) and the capacity is the one
\* before the call.
ClearEmptiesEveryWord ==
    last.op = "clear" =>
        /\ table.size = 0
        /\ \A i \in Slots(table) : table.hops[i] = {}
        /\ \A k \in WideKeys : ~has(table, k)
        /\ iterate(table) = <<>>
        /\ table.capacity = last.val

\* the same for HopSize 8, where a word is one byte
ClearEmptiesEveryByteWord ==
    (last.op = "clear" /\ HopSize = 8) =>
        /\ table.size = 0
        /\ \A i \in Slots(table) : table.hops[i] = {}
        /\ \A k \in WideKeys : ~has(table, k)
        /\ iterate(table) = <<>>
        /\ table.capacity = last.val

\* a cleared set of 16-bit or 32-bit words that still has an element
ClearedSetHasElement ==
    /\ last.op = "clear"
    /\ HopSize > 8
    /\ table.size = 0
    /\ \E k \in WideKeys : has(table, k)
    /\ iterate(table) # <<>>

\* ---------------------------------------------- properties: forty keys, width 32

AllWideInserted == fresh = MaxWide + 1 /\ last.op = "insert"

\* C20: a table constructed with a requested size of 8 and HopSize 32, after
\* insert of the keys 1 .. 40 (std::hash<int>, the identity): size() is 40,
\* capacity() is at least 64, find(k) succeeds for k in 1 .. 40 and find(41)
\* fails.
FortyKeysWidth32 ==
    (HopSize = 32 /\ hsel = "ident" /\ AllWideInserted) =>
        /\ table.size = 40
        /\ table.capacity >= 64
        /\ \A k \in WideKeys : find(table, k) # end(table)
        /\ find(table, MaxWide + 1) = end(table)

\* what the forty inserts leave, capacity aside
FortyKeysFound ==
    (HopSize = 32 /\ hsel = "ident" /\ AllWideInserted) =>
        /\ table.size = 40
        /\ \A k \in WideKeys : find(table, k) # end(table)
        /\ find(table, MaxWide + 1) = end(table)

FortyKeysCapacity ==
    /\ HopSize = 32 /\ hsel = "ident" /\ AllWideInserted
    /\ table.capacity < 64

\* ------------------------------------- behaviour: copies, moves and lifetime

\* Set::reset() is reset_internal(...) followed by init_internal() without the
\* initial_size argument init_internal requires: the call has no overload to
\* go to.  What reset_internal did is kept, and the missing call is recorded.
IllFormed == "init_internal() called without its argument"

MemoryFaults == {"read through nullptr", "read of freed storage", "double free",
                 "copy from storage the other set does not own"}

\* void Set::reset()
o_reset(st, name) ==
    LET st1 == o_reset_internal(st, name)
    IN  IF st1.fault # "none" THEN st1 ELSE Faulted(st1, IllFormed)

\* void Set::clear() on an object
o_clear(st, name, little_endian) ==
    StoreInPlace(st, name, clear_internal(View(st, name), little_endian))

\* How many keys the second set is filled with at most
MaxOther == 3

Names == {"A", "B", "C"}

\* A is a Set<Key, Hash, 8> constructed with a requested size, B a default
\* constructed one; Key has a trivial destructor or not.
InitLife ==
    /\ HopSize = 8
    /\ hsel \in HashSels
    /\ NoTable
    /\ trivial \in BOOLEAN
    /\ expect = [n \in Names |-> {}]
    /\ \E sa \in InitSizes :
          LET st == o_construct(o_construct(NoHeap, "A", sa), "B", HopSize)
          IN  mem = st.mem /\ objs = st.objs /\ fault = st.fault
    /\ call = [op |-> "none", then |-> "none", on |-> "A"]

\* The next key of an object: A holds 0, 1, 2, ..., B holds 4, 5, ...
LifeNext(name) ==
    IF expect[name] = {} THEN {IF name = "B" THEN 4 ELSE 0}
    ELSE {k \in Keys : k - 1 \in expect[name] /\ k \notin expect[name]}

\* x.insert(k) while the two sets are filled
LifeFill ==
    \E name \in {"A", "B"} : \E k \in LifeNext(name) :
       /\ call.op = "none"
       /\ name = "A" => expect["B"] = {}
       /\ name = "B" => Cardinality(expect["B"]) < MaxOther
       /\ BecomesOutcome(o_insert(Machine, name, k))
       /\ expect' = [expect EXCEPT ![name] = @ \cup {k}]
       /\ UNCHANGED <<HopSize, hsel, trivial, call>>
       /\ UNCHANGED tabvars

Becomes(st) == mem' = st.mem /\ objs' = st.objs /\ fault' = st.fault

\* B.clone(A);
LifeClone ==
    /\ call.op = "none"
    /\ Becomes(o_clone(Machine, "B", "A"))
    /\ expect' = [expect EXCEPT !["B"] = expect["A"]]
    /\ call' = [call EXCEPT !.op = "clone", !.on = "B"]
    /\ UNCHANGED <<HopSize, hsel, trivial>>
    /\ UNCHANGED tabvars

\* Set C(A);
LifeCopy ==
    /\ call.op = "none"
    /\ Becomes(o_copy_construct(Machine, "C", "A"))
    /\ expect' = [expect EXCEPT !["C"] = expect["A"]]
    /\ call' = [call EXCEPT !.op = "copy", !.on = "C"]
    /\ UNCHANGED <<HopSize, hsel, trivial>>
    /\ UNCHANGED tabvars

\* Set C(std::move(A));
LifeMove ==
    /\ call.op = "none"
    /\ Becomes(o_move_construct(Machine, "C", "A"))
    /\ expect' = [expect EXCEPT !["C"] = expect["A"], !["A"] = {}]
    /\ call' = [call EXCEPT !.op = "move", !.on = "C"]
    /\ UNCHANGED <<HopSize, hsel, trivial>>
    /\ UNCHANGED tabvars

\* one more call is made after the copy or move
Later == call.op # "none" /\ call.then = "none" /\ fault = "none"

\* x.insert(k) after the copy or move
LifeInsert ==
    \E name \in DOMAIN objs : \E k \in LifeNext(name) :
       /\ Later
       /\ Usable(Machine, name)
       /\ BecomesOutcome(o_insert(Machine, name, k))
       /\ expect' = [expect EXCEPT ![name] = @ \cup {k}]
       /\ call' = [call EXCEPT !.then = "insert", !.on = name]
       /\ UNCHANGED <<HopSize, hsel, trivial>>
       /\ UNCHANGED tabvars

\* x.remove(k) after the copy or move, k the smallest element of x
LifeRemove ==
    \E name \in DOMAIN objs : \E k \in expect[name] :
       /\ Later
       /\ Usable(Machine, name)
       /\ \A j \in expect[name] : k <= j
       /\ Becomes(StoreInPlace(Machine, name, erase(View(Machine, name), k).t))
       /\ expect' = [expect EXCEPT ![name] = @ \ {k}]
       /\ call' = [call EXCEPT !.then = "remove", !.on = name]
       /\ UNCHANGED <<HopSize, hsel, trivial>>
       /\ UNCHANGED tabvars

\* x.clear() after the copy or move (clear_internal has the true_type overload
\* only)
LifeClear ==
    \E name \in DOMAIN objs, little_endian \in BOOLEAN :
       /\ Later
       /\ trivial
       /\ Usable(Machine, name)
       /\ Becomes(o_clear(Machine, name, little_endian))
       /\ expect' = [expect EXCEPT ![name] = {}]
       /\ call' = [call EXCEPT !.then = "clear", !.on = name]
       /\ UNCHANGED <<HopSize, hsel, trivial>>
       /\ UNCHANGED tabvars

\* x.reset() after the copy or move
LifeReset ==
    \E name \in DOMAIN objs :
       /\ Later
       /\ Becomes(o_reset(Machine, name))
       /\ expect' = [expect EXCEPT ![name] = {}]
       /\ call' = [call EXCEPT !.then = "reset", !.on = name]
       /\ UNCHANGED <<HopSize, hsel, trivial>>
       /\ UNCHANGED tabvars

\* x goes out of scope after the copy or move
LifeDestroy ==
    \E name \in DOMAIN objs :
       /\ Later
       /\ Becomes(o_destroy(Machine, name))
       /\ expect' = [expect EXCEPT ![name] = {}]
       /\ call' = [call EXCEPT !.then = "destroy", !.on = name]
       /\ UNCHANGED <<HopSize, hsel, trivial>>
       /\ UNCHANGED tabvars

NextLife ==
    \/ LifeFill
    \/ LifeClone
    \/ LifeCopy
    \/ LifeMove
    \/ LifeInsert
    \/ LifeRemove
    \/ LifeClear
    \/ LifeReset
    \/ LifeDestroy

SpecLife == InitLife /\ [][NextLife]_vars

\* ------------------------------------------- properties: copies and lifetime

\* the objects that hold storage, and whether no two of them hold the same
OwnersApart ==
    \A m, n \in DOMAIN objs :
        m # n => (Buffers(m) \ {Null}) \cap (Buffers(n) \ {Null}) = {}

\* whether object `name` holds exactly the elements of `want`
Contains(name, want) ==
    /\ name \in DOMAIN objs
    /\ Usable(Machine, name)
    /\ LET t == View(Machine, name)
       IN  /\ Members(t) = want
           /\ Walked(t) = want
           /\ t.size = Cardinality(want)

\* C16: after Set::reset() the set is empty and holds fresh storage of the
\* default capacity (HopSize): it is what a newly constructed set is.
ResetLeavesFreshSet ==
    call.then = "reset" =>
        /\ fault = "none"
        /\ Contains(call.on, {})
        /\ View(Machine, call.on) = init_internal("Set", HopSize)
        /\ OwnersApart

\* what reset() leaves where its reset_internal part ran: no storage at all
ResetLeftNoStorage ==
    /\ call.then = "reset"
    /\ fault = IllFormed
    /\ objs[call.on] = BaseObject

\* the object a clone or a copy construction filled
CopyTarget == IF call.op = "clone" THEN "B" ELSE "C"

\* C17: Set::clone(other) and the copy constructor give the target the
\* capacity, size and elements of the other set, whatever the target held, in
\* storage of its own: a later insert, remove or clear on one of the two (or the
\* end of its lifetime) leaves the other as it was.
CloneIsSeparateCopy ==
    (call.op \in {"clone", "copy"} /\ call.then # "reset") =>
        /\ fault = "none"
        /\ OwnersApart
        /\ \A n \in DOMAIN objs : Contains(n, expect[n])
        /\ call.then = "none" =>
              /\ objs[CopyTarget].capacity = objs["A"].capacity
              /\ objs[CopyTarget].size = objs["A"].size
              /\ View(Machine, CopyTarget) = View(Machine, "A")

\* an insert that grew a clone, the set it was cloned from keeping its
\* elements and capacity
CloneGrewAlone ==
    /\ call.op = "clone"
    /\ call.then = "insert"
    /\ call.on = "B"
    /\ Cardinality(expect["A"]) >= 2
    /\ objs["B"].capacity > objs["A"].capacity
    /\ Contains("A", expect["A"])
    /\ Contains("B", expect["A"] \cup expect["B"])

\* a move construction, followed by nothing yet or by one of `follow` on the
\* source
MovedThen(follow) ==
    /\ call.op = "move"
    /\ call.then = "none" \/ (call.then \in follow /\ call.on = "A")

\* C18: move construction hands every element to the new set and leaves the
\* source empty (size 0) and safe to destroy or reset: neither reads nor frees
\* storage the source does not own, whether or not the key type has a trivial
\* destructor.
MovedFromSourceIsSafe ==
    MovedThen({"destroy", "reset"}) =>
        /\ fault \notin MemoryFaults
        /\ OwnersApart
        /\ "C" \in DOMAIN objs => Contains("C", expect["C"])
        /\ "A" \in DOMAIN objs => objs["A"].size = 0

\* the same for a key type with a trivial destructor only
MovedFromTrivialSourceIsSafe ==
    (trivial /\ MovedThen({"destroy", "reset"})) =>
        /\ fault \notin MemoryFaults
        /\ OwnersApart
        /\ "C" \in DOMAIN objs => Contains("C", expect["C"])
        /\ "A" \in DOMAIN objs => objs["A"].size = 0

\* the transfer itself, for either kind of key type
MoveTransfersElements ==
    MovedThen({}) =>
        /\ fault = "none"
        /\ Contains("C", expect["C"])
        /\ objs["A"] = BaseObject

\* the destructor of a moved-from source reading hops_[0] through nullptr
MovedFromDestructorReadsNull ==
    /\ MovedThen({"destroy"})
    /\ call.on = "A"
    /\ ~trivial
    /\ fault = "read through nullptr"

\* ------------------------------------------------- behaviour: construction

\* The requested sizes handed to the constructor are 0 .. MaxRequest
MaxRequest == 33

\* HopscotchBase(): no buffers, size_ 0, capacity_ 0 -- the object before the
\* body of Dict(size_type) / Set(size_type) runs
BaseTable(kind) ==
    [kind |-> kind, capacity |-> 0, size |-> 0,
     keys |-> <<>>, hops |-> <<>>, values |-> <<>>]

InitConstruct ==
    /\ HopSize \in HopSizes
    /\ hsel \in HashSels
    /\ \E kind \in Kinds : table = BaseTable(kind)
    /\ live = {}
    /\ val = [k \in Keys |-> DefaultValue]
    /\ fresh = 0
    /\ erases = 0
    /\ cap0 = 0
    /\ growths = 0
    /\ nestedSeen = FALSE
    /\ last = NoCall
    /\ NoObjects

\* Dict(size_type initial_size) / Set(size_type initial_size):
\*     init_internal(initial_size);
Construct ==
    \E n \in 0 .. MaxRequest :
       /\ last.op = "construct"
       /\ table' = init_internal(table.kind, n)
       /\ cap0' = table'.capacity
       /\ last' = [op |-> "init", key |-> n, val |-> 0, ret |-> 0, grows |-> 0]
       /\ UNCHANGED <<HopSize, hsel, live, val, fresh, erases, growths, nestedSeen>>
       /\ UNCHANGED objvars

\* size_type capacity() const, on the constructed table
Capacity ==
    /\ last.op = "init"
    /\ last' = [last EXCEPT !.op = "capacity", !.ret = table.capacity]
    /\ UNCHANGED <<HopSize, hsel, table, live, val, fresh, erases, cap0, growths,
                   nestedSeen>>
    /\ UNCHANGED objvars

NextConstruct == Construct \/ Capacity

SpecConstruct == InitConstruct /\ [][NextConstruct]_vars

\* ---------------------------------------------- properties: construction

\* whether c is the smallest power of two that is at least n
SmallestPowerOfTwoFrom(c, n) ==
    /\ IsPowerOfTwo(c)
    /\ c >= n
    /\ \A e \in 0 .. 30 : Pow2(e) >= n => c <= Pow2(e)

\* C19: a Dict or Set constructed with a requested size n has the smallest
\* power of two that is at least n as its capacity, and a requested size of 0
\* gives a capacity of HopSize, never 0.
ConstructedCapacity ==
    last.op = "capacity" =>
        /\ last.key >= 1 => SmallestPowerOfTwoFrom(last.ret, last.key)
        /\ last.key = 0 => last.ret = HopSize
        /\ last.ret # 0

\* the part about requested sizes of 1 and more
ConstructedCapacityFromOne ==
    (last.op = "capacity" /\ last.key >= 1) =>
        SmallestPowerOfTwoFrom(last.ret, last.key)

\* a table constructed with a requested size of 0 has capacity 0
ZeroRequestZeroCapacity ==
    /\ last.op = "capacity"
    /\ last.key = 0
    /\ last.ret = 0
    /\ EndIndex(table) = hop_bucket

\* ------------------------------------------------------------- save and load

\* What a serialiser writes for a hop word, and what it hands back when a
\* hop word is read: the word's value in HopSize bits.
WordValue(w) == LET RECURSIVE sum(_)
                    sum(s) == IF s = {} THEN 0
                              ELSE LET b == CHOOSE x \in s : TRUE
                                   IN  Pow2(b) + sum(s \ {b})
                IN  sum(w)

ValueWord(v) == {b \in 0 .. HopSize - 1 : (v \div Pow2(b)) % 2 = 1}

\* the items of a buffer in index order
Items(buf, n) == [i \in 1 .. n |-> buf[i - 1]]

\* the next n items of a stream from position at, as a buffer
Taken(stream, at, n) == [i \in 0 .. n - 1 |-> stream[at + 1 + i]]

\* void Set::save(SaveSerialise&) const: size_, capacity_, the hop words,
\* the keys
save(t) ==
    <<t.size, t.capacity>>
        \o Items([i \in Slots(t) |-> WordValue(t.hops[i])], EndIndex(t))
        \o Items(t.keys, EndIndex(t))

\* void Set::load(LoadSerialise&): size_, capacity_, the keys, the hop words.
\* (Its two loops are written with ++i for a counter named iter; they are
\* modelled as loops over iter.)
load(stream) ==
    LET cap == stream[2]
        n   == cap + hop_bucket
        ks  == Taken(stream, 2, n)
        hs  == Taken(stream, 2 + n, n)
    IN  [kind     |-> "Set",
         capacity |-> cap,
         size     |-> stream[1],
         keys     |-> ks,
         hops     |-> [i \in 0 .. n - 1 |-> ValueWord(hs[i])],
         values   |-> <<>>]

\* ------------------------------------------------- behaviour: save, then load
\* A Set is filled, saved to a stream and loaded back from it.  call keeps the
\* stream and the Set as it was when saved.

InitPersist ==
    /\ HopSize = 8
    /\ hsel \in HashSels
    /\ \E initial_size \in InitSizes : table = init_internal("Set", initial_size)
    /\ live = {}
    /\ val = [k \in Keys |-> DefaultValue]
    /\ fresh = 0
    /\ erases = 0
    /\ cap0 = table.capacity
    /\ growths = 0
    /\ nestedSeen = FALSE
    /\ last = NoCall
    /\ mem = <<>>
    /\ objs = <<>>
    /\ fault = "none"
    /\ trivial = TRUE
    /\ expect = <<>>
    /\ call = [op |-> "none"]

PersistInsert(k) ==
    /\ call.op = "none"
    /\ SetInsert(k)

PersistRemove(k) ==
    /\ call.op = "none"
    /\ Erase(k)

Save ==
    /\ call.op = "none"
    /\ call' = [op |-> "save", stream |-> save(table), saved |-> table]
    /\ UNCHANGED <<HopSize, hsel, tabvars, mem, objs, fault, trivial, expect>>

Load ==
    /\ call.op = "save"
    /\ table' = load(call.stream)
    /\ call' = [call EXCEPT !.op = "load"]
    /\ UNCHANGED <<HopSize, hsel, live, val, fresh, erases, cap0, growths,
                   nestedSeen, last>>
    /\ UNCHANGED <<mem, objs, fault, trivial, expect>>

NextPersist ==
    \/ \E k \in Callable : PersistInsert(k)
    \/ \E k \in RepeatKeys : PersistRemove(k)
    \/ Save
    \/ Load

SpecPersist == InitPersist /\ [][NextPersist]_vars

\* ---------------------------------------------- properties: save and load

\* C21: save writes the element count, the capacity, the capacity +
\* hop_bucket hop words and then the keys, and load reads them back in that
\* order, so that a Set loaded from what was saved has the size, capacity,
\* hop words and keys of the Set that was saved.
SaveLoadRoundTrip ==
    call.op = "load" =>
        /\ table.size = call.saved.size
        /\ table.capacity = call.saved.capacity
        /\ table.hops = call.saved.hops
        /\ table.keys = call.saved.keys

\* what save writes: count, capacity, every hop word, every key, in that order
SaveWritesLayout ==
    call.op = "save" =>
        LET n == EndIndex(table)
        IN  /\ Len(call.stream) = 2 + 2 * n
            /\ call.stream[1] = table.size
            /\ call.stream[2] = table.capacity
            /\ \A i \in 0 .. n - 1 :
                  /\ ValueWord(call.stream[3 + i]) = table.hops[i]
                  /\ call.stream[3 + n + i] = table.keys[i]

\* a loaded Set whose keys are the hop words that were saved
LoadedKeysAreSavedWords ==
    /\ call.op = "load"
    /\ call.saved.size > 0
    /\ \A i \in Slots(table) : table.keys[i] = WordValue(call.saved.hops[i])
    /\ table.keys # call.saved.keys

\* ---------------------------------------------- behaviour: growth on insert
\* The behaviour of Spec without its reads, with a fourth Hash functor that
\* gives every key one hash value, and with the insert calls that do not
\* return.

GrowSels == HashSels \cup {"same"}

InitGrow ==
    /\ HopSize = 8
    /\ hsel \in GrowSels
    /\ \E kind \in Kinds, initial_size \in InitSizes :
          table = init_internal(kind, initial_size)
    /\ live = {}
    /\ val = [k \in Keys |-> DefaultValue]
    /\ fresh = 0
    /\ erases = 0
    /\ cap0 = table.capacity
    /\ growths = 0
    /\ nestedSeen = FALSE
    /\ last = NoCall
    /\ NoObjects

\* The live keys whose hash value is that of key: they share key's home
\* bucket whatever the capacity is.
SameHash(key) == {j \in live : Hash(j) = Hash(key)}

\* A home bucket's word has hop_bucket displacement bits, so a key whose hash
\* value hop_bucket live keys share has no slot in any capacity: each expand()
\* reinserts those keys around the same home bucket and the retried insert
\* calls expand() again.
NeverPlaced(r, key) ==
    /\ ~r.ok
    /\ key \notin live
    /\ Cardinality(SameHash(key)) >= hop_bucket

\* the expand() calls from capacity c up to MaxCap
RECURSIVE Doublings(_)
Doublings(c) == IF c * 2 > MaxCap THEN 0 ELSE 1 + Doublings(c * 2)

\* no call is made after one that does not return
Returning == last.op # "insert_unfinished"

\* An insert that is still calling expand() at MaxCap and has no slot to find
Unfinished(k) ==
    /\ NeverPlaced(insert(table, k, ValueOf(k), 0), k)
    /\ last' = [op |-> "insert_unfinished", key |-> k, val |-> ValueOf(k),
                ret |-> FALSE, grows |-> Doublings(table.capacity)]
    /\ UNCHANGED <<HopSize, hsel, table, live, val, fresh, erases, cap0, growths,
                   nestedSeen>>
    /\ UNCHANGED objvars

NextGrow ==
    \/ Returning /\ \E k \in Callable : SetInsert(k)
    \/ Returning /\ \E k \in Callable : \E v \in {ValueOf(k), AltValue(k)} : DictInsert(k, v)
    \/ Returning /\ \E k \in RepeatKeys : Erase(k)
    \/ Returning /\ \E k \in Callable : Unfinished(k)

SpecGrow == InitGrow /\ [][NextGrow]_vars

\* --------------------------------------------------- properties: growth

\* C22: every insert of a new key returns with the key stored, after as many
\* growths as it takes and no more than finitely many, whatever the hash
\* functor and the distinct keys are; no insert grows the table without end.
InsertReturnsWithKeyStored ==
    /\ last.op # "insert_unfinished"
    /\ last.op = "insert" =>
          /\ has(table, last.key)
          /\ \E s \in Occupied(table) : table.keys[s] = last.key

\* the inserts that return do store their key, after growths where needed
ReturnedInsertStored ==
    last.op = "insert" =>
        /\ has(table, last.key)
        /\ \E s \in Occupied(table) : table.keys[s] = last.key

\* an insert that returned after two growths
InsertGrewTwice ==
    /\ last.op = "insert"
    /\ last.grows >= 2
    /\ has(table, last.key)

\* the eighth key of one hash value: its insert grows the table at every
\* capacity and does not return
InsertNeverReturns ==
    /\ last.op = "insert_unfinished"
    /\ hsel = "same"
    /\ Cardinality(live) = hop_bucket
    /\ ~has(table, last.key)

\* ------------------------------------------------------ properties: iterators

\* C23: the loop from begin() to end() with operator++ visits every live entry
\* once, in strictly ascending slot order, size() entries in all, and reads
\* no slot at an index of capacity + hop_bucket or more; begin() == end()
\* exactly when the table is empty.
ForwardIterationVisitsLiveEntries ==
    LET visited == iterate(table)
    IN  /\ Len(visited) = table.size
        /\ Len(visited) = Cardinality(live)
        /\ {visited[i] : i \in 1 .. Len(visited)} = Occupied(table)
        /\ {table.keys[visited[i]] : i \in 1 .. Len(visited)} = live
        /\ \A i \in 1 .. Len(visited) - 1 : visited[i] < visited[i + 1]
        /\ iterate_reads(table) \subseteq Slots(table)
        /\ (begin(table) = end(table)) <=> (table.size = 0)

\* an iteration over entries with a free slot between them and with entries
\* in the slots from capacity on
IteratedOverGapPastCapacity ==
    /\ \E s \in Occupied(table) : s >= table.capacity
    /\ \E s \in Slots(table) \ Occupied(table) :
          /\ \E a \in Occupied(table) : a < s
          /\ \E b \in Occupied(table) : b > s
    /\ Len(iterate(table)) >= 3

\* The nearest live slot below p
LiveBelow(t, p) == {q \in Occupied(t) : q < p}

Nearest(S) == CHOOSE q \in S : \A r \in S : r <= q

\* C24: operator-- on an iterator at a live slot p, or at end(), moves it to
\* the nearest live slot below p when there is one, so that stepping back from
\* end() visits the live entries in the reverse of the forward order.
DecrementMovesToLiveSlotBelow ==
    \A p \in Positions :
        LiveBelow(table, p) # {} =>
            iter_dec(table, p) = Nearest(LiveBelow(table, p))

\* what operator-- does: it moves to slot p - 1 when that slot is live, and
\* otherwise stays (or returns) where it was
DecrementStepsToAdjacentLiveSlot ==
    \A p \in Positions :
        iter_dec(table, p) =
            (IF p > 0 /\ p - 1 \in Occupied(table) THEN p - 1 ELSE p)

\* an iterator at end() that operator-- leaves at end() although the table
\* has live entries
DecrementFromEndStaysAtEnd ==
    /\ Occupied(table) # {}
    /\ iter_dec(table, EndIndex(table)) = EndIndex(table)

\* ------------------------------------------------ properties: hop words

\* whether slot s is live and holds a key whose home bucket is h
LiveFrom(t, s, h) ==
    /\ s \in Occupied(t)
    /\ get_bucket_index(t, t.keys[s]) = h

\* the displacement bits (word, bit) that name slot s
Referrers(t, s) ==
    {hk \in Slots(t) \X (1 .. hop_bucket) : hk[2] \in t.hops[hk[1]] /\ hk[1] + hk[2] - 1 = s}

\* C25: in every reachable state, bit k (1 <= k <= hop_bucket) of the word of a
\* home bucket h < capacity is set exactly when slot h + k - 1 is live and
\* holds a key whose home bucket is h; exactly one displacement bit of one
\* home bucket names each live slot; the words at capacity and above have no
\* displacement bit.
DisplacementBitsNameLiveSlots ==
    /\ \A h \in 0 .. table.capacity - 1 : \A k \in 1 .. hop_bucket :
          (k \in table.hops[h]) <=> LiveFrom(table, h + k - 1, h)
    /\ \A s \in Occupied(table) : Cardinality(Referrers(table, s)) = 1
    /\ \A i \in Slots(table) : i >= table.capacity => table.hops[i] \subseteq {0}

\* the same for the states that no clear() has produced
DisplacementBitsUntilClear ==
    last.op # "clear" => DisplacementBitsNameLiveSlots

\* a cleared table of 16- or 32-bit words: a live slot that no displacement
\* bit names
ClearedHomeWordOfLiveSlot ==
    /\ last.op = "clear"
    /\ HopSize > 8
    /\ \E s \in Occupied(table) : Referrers(table, s) = {}

\* ---------------------------------------------- properties: find_internal

\* The slots whose key find_internal compares with k: in the loop condition
\* (hops & 1) && (keys_[index] == k) the comparison is made only when the
\* low bit of the shifted word is set, and the loop ends at the first match.
RECURSIVE compared_scan(_, _, _, _)
compared_scan(t, hops, index, k) ==
    IF hops = {} THEN {}
    ELSE IF 0 \in hops
         THEN {index} \cup (IF t.keys[index] = k THEN {}
                            ELSE compared_scan(t, Shr(hops), index + 1, k))
         ELSE compared_scan(t, Shr(hops), index + 1, k)

find_compared(t, index, k) == compared_scan(t, Shr(t.hops[index]), index, k)

\* the displacement bits set in the word at home
SetBits(t, home) == {k \in 1 .. hop_bucket : k \in t.hops[home]}

Least(S) == CHOOSE k \in S : \A j \in S : k <= j

\* find_internal(home, key) as a scan in which set bit k stands for the slot
\* home + k - shift: the slot of the first match or the end index, and the
\* slots compared being those of the set bits up to the first match
ScansSlotsOfSetBits(t, key, shift) ==
    LET home    == get_bucket_index(t, key)
        bits    == SetBits(t, home)
        matches == {k \in bits : t.keys[home + k - shift] = key}
    IN  /\ find_internal(t, home, key) =
              (IF matches = {} THEN EndIndex(t) ELSE home + Least(matches) - shift)
        /\ find_compared(t, home, key) =
              {home + k - shift : k \in {j \in bits : matches = {} \/ j <= Least(matches)}}

\* C26: find_internal(home, key) compares, for each set bit k in
\* 1 .. hop_bucket of the word at home, the key stored at slot home + k with
\* key, returns that slot at the first match and capacity + hop_bucket when
\* none matches, and compares no key of a slot whose displacement bit is
\* clear.
FindInternalComparesSlotHomePlusK ==
    \A key \in Keys : ScansSlotsOfSetBits(table, key, 0)

\* C26 as the code has it: set bit k stands for slot home + k - 1
FindInternalComparesSlotHomePlusKMinusOne ==
    \A key \in Keys : ScansSlotsOfSetBits(table, key, 1)

\* a find_internal of a live key that compares at least two keys and matches
\* past a clear bit
FindMatchedPastClearBit ==
    \E key \in live :
        LET home == get_bucket_index(table, key)
            at   == find_internal(table, home, key)
        IN  /\ at # EndIndex(table)
            /\ at > home + 1
            /\ \E k \in 1 .. hop_bucket :
                  /\ home + k - 1 < at
                  /\ k \notin table.hops[home]
            /\ Cardinality(find_compared(table, home, key)) >= 2

\* --------------------------------------------- properties: keys and values

\* C27: in a Dict, after any inserts (with their displacement cascades and
\* growths) and erases, get(k, d) returns for each live key k the value given
\* by the insert that added k, and every live slot holds the value that was
\* inserted with the key it holds, never the value of another key.
DictValuesStayPaired ==
    table.kind = "Dict" =>
        /\ \A k \in live : get(table, k, MissingValue) = val[k]
        /\ \A s \in Occupied(table) :
              /\ table.keys[s] \in live
              /\ table.values[s] = val[table.keys[s]]

\* a Dict that has grown and been erased from, with three or more entries,
\* one of them away from its home bucket
DictPairedAfterGrowthAndErase ==
    /\ table.kind = "Dict"
    /\ growths >= 1
    /\ erases >= 1
    /\ Cardinality(live) >= 3
    /\ \E s \in Occupied(table) : get_bucket_index(table, table.keys[s]) < s
    /\ \A k \in live : get(table, k, MissingValue) \in {ValueOf(k), DefaultValue}
    /\ \E k \in live : get(table, k, MissingValue) = ValueOf(k)

\* ------------------------------------------------ a Dict object and storage
\* The Dict object "D": its members, with keys_, values_ and hops_ addresses
\* of heap blocks.

DictObject(t, a) ==
    [capacity |-> t.capacity, size |-> t.size,
     keys_ |-> a, values_ |-> a + 1, hops_ |-> a + 2]

\* keys_ = calloc(...); values_ = calloc(...); hops_ = calloc(...) holding the
\* buffers of table t
d_allocate(st, t) ==
    LET a == Len(st.mem) + 1
    IN  [st EXCEPT
            !.mem  = st.mem \o <<Block(t.keys), Block(t.values), Block(t.hops)>>,
            !.objs = [n \in DOMAIN st.objs \cup {"D"} |->
                         IF n = "D" THEN DictObject(t, a) ELSE st.objs[n]]]

\* whether the three members point at blocks that have not been freed
d_usable(st) ==
    /\ "D" \in DOMAIN st.objs
    /\ Readable(st, st.objs["D"].keys_)
    /\ Readable(st, st.objs["D"].values_)
    /\ Readable(st, st.objs["D"].hops_)

\* the table the members describe, for a usable object
d_view(st) ==
    LET o == st.objs["D"]
    IN  [kind     |-> "Dict",
         capacity |-> o.capacity,
         size     |-> o.size,
         keys     |-> st.mem[o.keys_].data,
         hops     |-> st.mem[o.hops_].data,
         values   |-> st.mem[o.values_].data]

\* The effect of an insert that left table t: writes through the three
\* members when expand did not run, else the buffers expand allocated, the
\* old ones freed
d_settle(st, t, grows) ==
    LET o == st.objs["D"]
    IN  IF grows = 0
        THEN [st EXCEPT
                !.mem  = [a \in DOMAIN st.mem |->
                             IF a = o.keys_ THEN Block(t.keys)
                             ELSE IF a = o.values_ THEN Block(t.values)
                             ELSE IF a = o.hops_ THEN Block(t.hops)
                             ELSE st.mem[a]],
                !.objs["D"] = [o EXCEPT !.capacity = t.capacity, !.size = t.size]]
        ELSE d_allocate(free(free(free(st, o.keys_), o.hops_), o.values_), t)

d_settled(st, r) == [st |-> d_settle(st, r.t, r.grows), ok |-> r.ok, grows |-> r.grows]

\* Dict(size_type initial_size)
d_construct(st, initial_size) == d_allocate(st, init_internal("Dict", initial_size))

\* Every member function that looks a key up starts with find_internal, which
\* reads hops_[index]
d_unreadable(st) == [st |-> Faulted(st, "read of freed storage"), ok |-> TRUE, grows |-> 0]

\* iterator Dict::insert(const key_type&, const value_type&)
d_insert(st, k, v) ==
    IF d_usable(st) THEN d_settled(st, insert(d_view(st), k, v, 0))
    ELSE d_unreadable(st)

\* iterator Dict::find(const key_type&)
d_find(st, k) ==
    IF d_usable(st) THEN st ELSE Faulted(st, "read of freed storage")

\* Dict::reset_internal: the false_type overload walks
\* hops_[0 .. capacity_ + hop_bucket) first; then the three buffers are freed
\* and capacity_ and size_ set to 0.  keys_, values_ and hops_ keep their
\* values.
d_reset_internal(st) ==
    LET o       == st.objs["D"]
        scanned == IF trivial \/ Readable(st, o.hops_) THEN st
                   ELSE Faulted(st, "read of freed storage")
    IN  IF scanned.fault # "none" THEN scanned
        ELSE LET released == free(free(free(scanned, o.keys_), o.values_), o.hops_)
             IN  IF released.fault # "none" THEN released
                 ELSE [released EXCEPT !.objs["D"] = [o EXCEPT !.capacity = 0, !.size = 0]]

\* void Dict::reset()
d_reset(st) == d_reset_internal(st)

\* ~Dict(): reset_internal, after which the object is gone
d_destroy(st) ==
    LET st1 == d_reset_internal(st)
    IN  IF st1.fault # "none" THEN st1
        ELSE [st1 EXCEPT !.objs = [n \in DOMAIN st1.objs \ {"D"} |-> st1.objs[n]]]

\* ----------------------------------------------- behaviour: a Dict is reset
\* A Dict is filled, reset or not, and then used once more or destroyed.

InitDict ==
    /\ HopSize = 8
    /\ hsel \in HashSels
    /\ NoTable
    /\ trivial \in BOOLEAN
    /\ expect = [n \in {"D"} |-> {}]
    /\ \E initial_size \in InitSizes :
          LET st == d_construct(NoHeap, initial_size)
          IN  mem = st.mem /\ objs = st.objs /\ fault = st.fault
    /\ call = [op |-> "none", then |-> "none"]

\* no call has been made after the fill (and the reset), and none has faulted
AfterFill == call.then = "none" /\ fault = "none" /\ "D" \in DOMAIN objs

\* d.insert(k, v) for the next key
DictFill ==
    \E k \in Keys :
       /\ call.op = "none"
       /\ AfterFill
       /\ k = Cardinality(expect["D"])
       /\ BecomesOutcome(d_insert(Machine, k, ValueOf(k)))
       /\ expect' = [expect EXCEPT !["D"] = @ \cup {k}]
       /\ UNCHANGED <<HopSize, hsel, trivial, call>>
       /\ UNCHANGED tabvars

\* d.reset()
DictReset ==
    /\ call.op = "none"
    /\ AfterFill
    /\ Becomes(d_reset(Machine))
    /\ expect' = [expect EXCEPT !["D"] = {}]
    /\ call' = [call EXCEPT !.op = "reset"]
    /\ UNCHANGED <<HopSize, hsel, trivial>>
    /\ UNCHANGED tabvars

\* d.insert(k, v) as the last call
DictLaterInsert ==
    \E k \in Keys :
       /\ AfterFill
       /\ k = Cardinality(expect["D"])
       /\ BecomesOutcome(d_insert(Machine, k, ValueOf(k)))
       /\ expect' = [expect EXCEPT !["D"] = @ \cup {k}]
       /\ call' = [call EXCEPT !.then = "insert"]
       /\ UNCHANGED <<HopSize, hsel, trivial>>
       /\ UNCHANGED tabvars

\* d.find(k) as the last call
DictLaterFind ==
    \E k \in RepeatedKeys :
       /\ AfterFill
       /\ Becomes(d_find(Machine, k))
       /\ call' = [call EXCEPT !.then = "find"]
       /\ UNCHANGED <<HopSize, hsel, trivial, expect>>
       /\ UNCHANGED tabvars

\* d goes out of scope
DictDestroy ==
    /\ AfterFill
    /\ Becomes(d_destroy(Machine))
    /\ expect' = [expect EXCEPT !["D"] = {}]
    /\ call' = [call EXCEPT !.then = "destroy"]
    /\ UNCHANGED <<HopSize, hsel, trivial>>
    /\ UNCHANGED tabvars

NextDict ==
    \/ DictFill
    \/ DictReset
    \/ DictLaterInsert
    \/ DictLaterFind
    \/ DictDestroy

SpecDict == InitDict /\ [][NextDict]_vars

\* ----------------------------------------------- properties: Dict::reset

\* the members of D that point at a block that has been freed
Dangling ==
    IF "D" \notin DOMAIN objs THEN {}
    ELSE {a \in {objs["D"].keys_, objs["D"].values_, objs["D"].hops_} :
             a # Null /\ ~mem[a].live}

\* C29: after Dict::reset() the Dict is a valid object: none of its key,
\* value and bitmap members points at released storage, a later insert or
\* find touches allocated storage only, and the destructor releases each
\* buffer at most once.
DictValidAfterReset ==
    call.op = "reset" => (Dangling = {} /\ fault = "none")

\* without reset() the object stays usable and its destructor releases each
\* buffer once
DictValidWithoutReset ==
    call.op = "none" =>
        /\ Dangling = {}
        /\ fault = "none"
        /\ call.then = "destroy" => \A a \in DOMAIN mem : ~mem[a].live
        /\ call.then # "destroy" => d_usable(Machine) /\ expect["D"] \subseteq
                                       {k \in Keys : has(d_view(Machine), k)}

\* the destructor of a Dict that was reset frees the buffers a second time
ResetDictFreedTwice ==
    /\ call.op = "reset"
    /\ call.then = "destroy"
    /\ fault = "double free"

\* an insert into a Dict that was reset reads freed storage
ResetDictInsertReadFreed ==
    /\ call.op = "reset"
    /\ call.then = "insert"
    /\ fault = "read of freed storage"

\* ------------------------------------------- properties: reads of insert

\* C28: in a table constructed with a requested size of 1 or more, insert
\* reads hops_ at no index of capacity + hop_bucket or more: the probe loop
\* evaluates hops_[idx] with & even when idx equals probe_end, but idx does
\* not reach capacity + hop_bucket; and the displacement search reads no word
\* above idx.  (The expand() calls of the insert and their reinserts
\* included.)
InsertReadsWithinBuffers ==
    \A k \in {fresh} \cup RepeatKeys : ~insert(table, k, ValueOf(k), 0).stray

\* an insert of a new key whose probe runs up to the last slot of the
\* buffers, capacity + hop_bucket - 1, which is free
ProbeReachesLastSlot ==
    \E k \in {fresh} :
        LET bucket_index == get_bucket_index(table, k)
        IN  /\ ~has(table, k)
            /\ cap0 >= 1
            /\ bucket_index < EndIndex(table) - 1
            /\ linear_probe(table, bucket_index,
                            Min(bucket_index + probe_max, EndIndex(table)))
                  = EndIndex(table) - 1
            /\ insert(table, k, ValueOf(k), 0).ok

\* ------------------------------------- properties: a set as its own operand

\* C30: the assignment operators with the set itself as right operand follow
\* set algebra, although the loop walks the set it changes: A |= A and A &= A
\* leave A as it was, A -= A and A ^= A leave A empty, with size() 0.
SelfAssignFollowsAlgebra ==
    call.op \in SelfOps =>
        /\ fault = "none"
        /\ Usable(Machine, "A")
        /\ LET now  == View(Machine, "A")
               want == IF call.op \in {"|=", "&="} THEN Members(call.lhs) ELSE {}
           IN  /\ Members(now) = want
               /\ Walked(now) = want
               /\ now.size = Cardinality(want)
               /\ call.op \in {"|=", "&="} => now = call.lhs

\* A ^= A on a set of five or more elements that has grown, some of them
\* away from their home bucket
SelfSymmetricDifferenceEmptied ==
    /\ call.op = "^="
    /\ call.lhs.size >= 5
    /\ call.lhs.capacity > 8
    /\ \E s \in Occupied(call.lhs) : get_bucket_index(call.lhs, call.lhs.keys[s]) < s
    /\ View(Machine, "A").size = 0
    /\ Occupied(View(Machine, "A")) = {}

====
